---- MODULE Spec2Model ----
(***************************************************************************)
(* Lead-Scoring-Bank: the feature deriver (core/feature_builder.py), the   *)
(* extractor (core/apify_extractor.py): activity days, recent posts and   *)
(* the polling of a profile run, the predictor (core/model_predictor.py): *)
(* loading, schema alignment, prediction and explanation, and the          *)
(* Streamlit shell (app.py), one script run per event of the page.         *)
(*                                                                         *)
(* Text is modelled by TLA+ strings, read character by character with      *)
(* SubSeq.  A Python float is modelled by an integer number of hundredths  *)
(* (DecScale), which is exact for the decimal literals of at most two    *)
(* fractional digits that the input sets contain.  A pandas single-row     *)
(* DataFrame is a sequence of columns [name, val]; a cell is a tagged      *)
(* record: Num(n), Str(s) or NoneV.                                        *)
(***************************************************************************)
EXTENDS Integers, Sequences, FiniteSets, TLC

VARIABLES
    pc,              \* "start": inputs chosen, "done": the operation returned;
                     \* "ready" / "failed": the predictor was constructed / the
                     \* constructor raised
    op,              \* which operation the behaviour applies
    feature_names,   \* manifest feature list (feature_names / model_feature_names)
    X,               \* argument of ModelPredictor._align_features
    X_aligned,       \* its result
    linkedin_data,   \* argument of build_features
    user_data,       \* argument of build_features
    built,           \* result of build_features: a row, or a raised exception
    size_str,        \* argument of _parse_size_to_number
    size_out,        \* its result
    revenue_str,     \* argument of _parse_revenue_millions
    revenue_out,     \* its result
    model_pkl,       \* content of models/model.pkl, Missing if the file is absent
    metadata_json,   \* content of models/metadata.json, Missing if absent
    model,           \* ModelPredictor.model
    metadata,        \* ModelPredictor.metadata
    reverse_mapping, \* ModelPredictor.reverse_mapping
    probs,           \* what predict_proba did in the last predict: Null if it
                     \* was not called, Raised, or the probabilities returned
    prediction,      \* the tuple (result, debug_info) returned by predict
    top_n,           \* argument of explain_prediction
    explanation,     \* result of explain_prediction
    session_state,   \* st.session_state of the application
    uncaught,        \* whether the last script run ended in an uncaught exception
    screen,          \* what the scoring section displayed in the last script run
    clock,           \* time.time() - start inside _wait_for_run, in seconds
    elapsed,         \* the value of time.time() - start read by the loop condition
    run_timeout,     \* argument timeout of _wait_for_run
    run_status,      \* the last status returned by _get_run_status
    wait_ok,         \* result of _wait_for_run
    profile_data,    \* result of extract_profile
    resp,            \* response of the posts actor
    posts_limit,     \* argument limit of extract_recent_posts
    recent_posts     \* result of extract_recent_posts

\* the state of the predictor
predictor_vars == << model_pkl, metadata_json, model, metadata, reverse_mapping,
                     probs, prediction, top_n, explanation >>

\* the state of the feature builder and of the parsers
builder_vars == << linkedin_data, user_data, built, size_str, size_out,
                   revenue_str, revenue_out >>

\* the state of the application shell
app_vars == << session_state, uncaught, screen >>

\* the state of the extractor
extractor_vars == << clock, elapsed, run_timeout, run_status, wait_ok, profile_data,
                     resp, posts_limit, recent_posts >>

shell_vars == << app_vars, extractor_vars >>

vars == << pc, op, feature_names, X, X_aligned, builder_vars, predictor_vars,
           shell_vars >>

Null == [k |-> "null"]

\* no predictor has been constructed
PredictorIdle ==
    /\ model_pkl = Null /\ metadata_json = Null
    /\ model = Null /\ metadata = Null /\ reverse_mapping = Null
    /\ probs = Null /\ prediction = Null /\ top_n = 0 /\ explanation = Null

\* no application is running
AppIdle == session_state = Null /\ uncaught = FALSE /\ screen = Null

\* no profile run is being awaited
WaitIdle ==
    /\ clock = 0 /\ elapsed = 0 /\ run_timeout = 0 /\ run_status = ""
    /\ wait_ok = Null /\ profile_data = Null

\* no posts request has been made
PostsIdle == resp = Null /\ posts_limit = 0 /\ recent_posts = Null

\* no extraction is running
ExtractorIdle == WaitIdle /\ PostsIdle

\* no feature row is being built and no text parsed
BuilderIdle ==
    /\ linkedin_data = Null /\ user_data = Null /\ built = Null
    /\ size_str = "" /\ size_out = 0 /\ revenue_str = "" /\ revenue_out = 0

---------------------------------------------------------------------------
(* Characters and strings                                                  *)

DecScale == 10 * 10

Digits == {"0", "1", "2", "3", "4", "5", "6", "7", "8", "9"}

DigitVal(c) ==
    CASE c = "0" -> 0 [] c = "1" -> 1 [] c = "2" -> 2 [] c = "3" -> 3
      [] c = "4" -> 4 [] c = "5" -> 5 [] c = "6" -> 6 [] c = "7" -> 7
      [] c = "8" -> 8 [] c = "9" -> 9

LowerLetters == {"a", "b", "c", "d", "e", "f", "g", "h", "i", "j", "k", "l", "m",
                 "n", "o", "p", "q", "r", "s", "t", "u", "v", "w", "x", "y", "z"}

UpperLetters == {"A", "B", "C", "D", "E", "F", "G", "H", "I", "J", "K", "L", "M",
                 "N", "O", "P", "Q", "R", "S", "T", "U", "V", "W", "X", "Y", "Z"}

LowerOf(c) ==
    CASE c = "A" -> "a" [] c = "B" -> "b" [] c = "C" -> "c" [] c = "D" -> "d"
      [] c = "E" -> "e" [] c = "F" -> "f" [] c = "G" -> "g" [] c = "H" -> "h"
      [] c = "I" -> "i" [] c = "J" -> "j" [] c = "K" -> "k" [] c = "L" -> "l"
      [] c = "M" -> "m" [] c = "N" -> "n" [] c = "O" -> "o" [] c = "P" -> "p"
      [] c = "Q" -> "q" [] c = "R" -> "r" [] c = "S" -> "s" [] c = "T" -> "t"
      [] c = "U" -> "u" [] c = "V" -> "v" [] c = "W" -> "w" [] c = "X" -> "x"
      [] c = "Y" -> "y" [] c = "Z" -> "z" [] OTHER -> c

UpperOf(c) ==
    CASE c = "a" -> "A" [] c = "b" -> "B" [] c = "c" -> "C" [] c = "d" -> "D"
      [] c = "e" -> "E" [] c = "f" -> "F" [] c = "g" -> "G" [] c = "h" -> "H"
      [] c = "i" -> "I" [] c = "j" -> "J" [] c = "k" -> "K" [] c = "l" -> "L"
      [] c = "m" -> "M" [] c = "n" -> "N" [] c = "o" -> "O" [] c = "p" -> "P"
      [] c = "q" -> "Q" [] c = "r" -> "R" [] c = "s" -> "S" [] c = "t" -> "T"
      [] c = "u" -> "U" [] c = "v" -> "V" [] c = "w" -> "W" [] c = "x" -> "X"
      [] c = "y" -> "Y" [] c = "z" -> "Z" [] OTHER -> c

Ch(s, i) == SubSeq(s, i, i)

Drop(s, n) == SubSeq(s, n + 1, Len(s))

RECURSIVE MapChars(_, _)
MapChars(s, up) ==
    IF Len(s) = 0 THEN ""
    ELSE (IF up THEN UpperOf(Ch(s, 1)) ELSE LowerOf(Ch(s, 1))) \o MapChars(Drop(s, 1), up)

\* str.lower() and str.upper()
Lower(s) == MapChars(s, FALSE)
Upper(s) == MapChars(s, TRUE)

\* str.strip(): leading and trailing blanks removed
RECURSIVE LStrip(_)
LStrip(s) == IF Len(s) > 0 /\ Ch(s, 1) = " " THEN LStrip(Drop(s, 1)) ELSE s

RECURSIVE RStrip(_)
RStrip(s) ==
    IF Len(s) > 0 /\ Ch(s, Len(s)) = " " THEN RStrip(SubSeq(s, 1, Len(s) - 1)) ELSE s

Strip(s) == RStrip(LStrip(s))

\* pat in s
Contains(s, pat) ==
    \E i \in 1 .. (Len(s) - Len(pat) + 1) : SubSeq(s, i, i + Len(pat) - 1) = pat

\* s.replace(pat, rep): every non-overlapping occurrence, left to right
RECURSIVE Replace(_, _, _)
Replace(s, pat, rep) ==
    IF Len(s) < Len(pat) THEN s
    ELSE IF SubSeq(s, 1, Len(pat)) = pat
         THEN rep \o Replace(Drop(s, Len(pat)), pat, rep)
         ELSE Ch(s, 1) \o Replace(Drop(s, 1), pat, rep)

\* position of the first occurrence of the one-character string c, 0 if none
FirstIndex(s, c) ==
    IF \E i \in 1 .. Len(s) : Ch(s, i) = c
    THEN CHOOSE i \in 1 .. Len(s) :
            Ch(s, i) = c /\ \A j \in 1 .. (i - 1) : Ch(s, j) # c
    ELSE 0

\* whitespace-delimited word count: len(s.split())
WordCount(s) ==
    Cardinality({i \in 1 .. Len(s) :
                    Ch(s, i) # " " /\ (i = 1 \/ Ch(s, i - 1) = " ")})

---------------------------------------------------------------------------
(* Python float(): an optional sign, digits with an optional point; the    *)
(* value in hundredths.  Anything else raises ValueError (ok = FALSE).    *)

AllDigits(s) == \A i \in 1 .. Len(s) : Ch(s, i) \in Digits

RECURSIVE DigitsVal(_)
DigitsVal(s) ==
    IF Len(s) = 0 THEN 0
    ELSE 10 * DigitsVal(SubSeq(s, 1, Len(s) - 1)) + DigitVal(Ch(s, Len(s)))

\* value in hundredths of the fraction digits f (digits beyond the second dropped)
FracVal(f) == DigitsVal(SubSeq(f \o "00", 1, 2))

UnsignedDecimal(s) ==
    LET p == FirstIndex(s, ".")
        ip == IF p = 0 THEN s ELSE SubSeq(s, 1, p - 1)
        fp == IF p = 0 THEN "" ELSE Drop(s, p)
    IN  IF Len(ip) + Len(fp) > 0 /\ AllDigits(ip) /\ AllDigits(fp)
        THEN [ok |-> TRUE, val |-> DigitsVal(ip) * DecScale + FracVal(fp)]
        ELSE [ok |-> FALSE, val |-> 0]

ParseFloat(str) ==
    LET s == Strip(str)
        neg == Len(s) > 0 /\ Ch(s, 1) = "-"
        signed == Len(s) > 0 /\ Ch(s, 1) \in {"-", "+"}
        u == UnsignedDecimal(IF signed THEN Drop(s, 1) ELSE s)
    IN  IF u.ok THEN [ok |-> TRUE, val |-> IF neg THEN 0 - u.val ELSE u.val]
        ELSE u

\* integer division truncating toward zero, as int() of a float quotient
TruncDiv(a, b) == IF a >= 0 THEN a \div b ELSE 0 - ((0 - a) \div b)

\* int(x) for a float x in hundredths
IntOf(v) == TruncDiv(v, DecScale)

---------------------------------------------------------------------------
(* DynamicFeatureBuilder._parse_size_to_number                             *)

\* s with "employees"/"employee" and thousands separators removed
SizeNormal(str) ==
    LET s1 == Lower(str)
        s2 == Strip(Replace(Replace(s1, "employees", ""), "employee", ""))
    IN  Strip(Replace(s2, ",", ""))

\* the branch for "10000+"
SizePlus(s) ==
    LET f == ParseFloat(Strip(Replace(s, "+", "")))
    IN  IF f.ok THEN IntOf(f.val) ELSE 0

\* the branch for "5001-10000": split at the first "-", mean of the bounds
SizeRange(s) ==
    LET p == FirstIndex(s, "-")
        a == ParseFloat(Strip(SubSeq(s, 1, p - 1)))
        b == ParseFloat(Strip(Drop(s, p)))
    IN  IF a.ok /\ b.ok THEN TruncDiv(a.val + b.val, 2 * DecScale) ELSE 0

\* the branch for a bare number
SizeBare(s) ==
    LET f == ParseFloat(s) IN IF f.ok THEN IntOf(f.val) ELSE 0

_parse_size_to_number(str) ==
    IF str = "" THEN 0
    ELSE LET s == SizeNormal(str)
         IN  IF Contains(s, "+") THEN SizePlus(s)
             ELSE IF Contains(s, "-") THEN SizeRange(s)
             ELSE SizeBare(s)

---------------------------------------------------------------------------
(* DynamicFeatureBuilder._parse_revenue_millions; the result in            *)
(* hundredths of a million                                                *)

RevenueNormal(str) ==
    LET s1 == Strip(Upper(str))
        s2 == Strip(Replace(Replace(s1, ",", ""), "$", ""))
    IN  Replace(Replace(s2, "BILLION", "B"), "MILLION", "M")

\* length of the run of digits of s that starts at position i
RECURSIVE DigitRun(_, _)
DigitRun(s, i) ==
    IF i <= Len(s) /\ Ch(s, i) \in Digits THEN 1 + DigitRun(s, i + 1) ELSE 0

\* re.search(r"([0-9]*\.?[0-9]+)", s): the leftmost, greedy match
FirstNumber(s) ==
    LET starts == {i \in 1 .. Len(s) :
                      \/ Ch(s, i) \in Digits
                      \/ Ch(s, i) = "." /\ i < Len(s) /\ Ch(s, i + 1) \in Digits}
    IN  IF starts = {} THEN [found |-> FALSE, text |-> ""]
        ELSE LET i == CHOOSE j \in starts : \A k \in starts : j <= k
                 d1 == DigitRun(s, i)
                 q == i + d1
                 d2 == IF q < Len(s) /\ Ch(s, q) = "." THEN DigitRun(s, q + 1) ELSE 0
             IN  [found |-> TRUE,
                  text |-> IF d2 > 0 THEN SubSeq(s, i, q + d2)
                           ELSE SubSeq(s, i, q - 1)]

_parse_revenue_millions(str) ==
    IF str = "" THEN 0
    ELSE LET s == RevenueNormal(str)
             match == FirstNumber(s)
             val == ParseFloat(match.text).val
         IN  IF ~match.found THEN 0
             ELSE IF Contains(s, "B") THEN val * 1000
             ELSE IF Contains(s, "M") THEN val
             ELSE val

\* DynamicFeatureBuilder._get_revenue_category (revenue_millions in hundredths)
_get_revenue_category(revenue_millions) ==
    IF revenue_millions < 20 * DecScale THEN 0
    ELSE IF revenue_millions < 50 * DecScale THEN 1
    ELSE IF revenue_millions < 100 * DecScale THEN 2
    ELSE IF revenue_millions < 500 * DecScale THEN 3
    ELSE 4

\* the second bucket closed one day late
_compute_activity_scoreLateSecond(activity_days) ==
    IF activity_days <= 7 * DecScale THEN 5
    ELSE IF activity_days <= 15 * DecScale THEN 4
    ELSE IF activity_days <= 30 * DecScale THEN 3
    ELSE IF activity_days <= 90 * DecScale THEN 2
    ELSE IF activity_days <= 180 * DecScale THEN 1
    ELSE 0

\* DynamicFeatureBuilder._compute_activity_score (activity_days in hundredths)
_compute_activity_score(activity_days) ==
    IF activity_days <= 7 * DecScale THEN 5
    ELSE IF activity_days <= 14 * DecScale THEN 4
    ELSE IF activity_days <= 30 * DecScale THEN 3
    ELSE IF activity_days <= 90 * DecScale THEN 2
    ELSE IF activity_days <= 180 * DecScale THEN 1
    ELSE 0

---------------------------------------------------------------------------
(* Python values of the profile and manual-field dictionaries              *)

Missing == [k |-> "missing"]            \* the key is absent
NoneV == [k |-> "none"]                 \* None
EmptyDict == [k |-> "emptydict"]        \* {}
Num(n) == [k |-> "num", v |-> n]
Str(s) == [k |-> "str", v |-> s]
List(l) == [k |-> "list", v |-> l]
Bool(b) == [k |-> "bool", v |-> b]
Dict(fields) == [k |-> "dict"] @@ fields

\* bool(x) of a value
Truthy(x) ==
    CASE x.k = "str" -> x.v # ""
      [] x.k = "num" -> x.v # 0
      [] x.k = "bool" -> x.v
      [] x.k = "list" -> Len(x.v) > 0
      [] x.k = "dict" -> DOMAIN x # {"k"}
      [] x.k = "tuple" -> Len(x.v) > 0
      [] OTHER -> FALSE

\* x or ""
OrEmpty(x) == IF Truthy(x) THEN x ELSE Str("")

\* DynamicFeatureBuilder._safe_lower, for None and for text
_safe_lower(x) == IF x.k = "str" THEN Strip(Lower(x.v)) ELSE ""

---------------------------------------------------------------------------
(* re.search over a pattern that is an alternation of literals, each with  *)
(* an optional \b before and after it                                      *)

IsWordChar(c) == c \in LowerLetters \cup UpperLetters \cup Digits \cup {"_"}

\* \b between the characters k and k+1 of s (k = 0: before the first)
BoundaryAt(s, k) ==
    LET before == k >= 1 /\ IsWordChar(Ch(s, k))
        after == k < Len(s) /\ IsWordChar(Ch(s, k + 1))
    IN  before # after

Lit(text) == [lit |-> text, lb |-> FALSE, rb |-> FALSE]
Word(text) == [lit |-> text, lb |-> TRUE, rb |-> TRUE]

MatchesAt(s, alt, i) ==
    /\ SubSeq(s, i, i + Len(alt.lit) - 1) = alt.lit
    /\ alt.lb => BoundaryAt(s, i - 1)
    /\ alt.rb => BoundaryAt(s, i + Len(alt.lit) - 1)

Search(alts, s) ==
    \E alt \in alts : \E i \in 1 .. (Len(s) - Len(alt.lit) + 1) : MatchesAt(s, alt, i)

\* the patterns of build_features
PatCeo == {Word("ceo"), Lit("chief executive"), Lit("president")}
PatCLevel == {Word("chief"), Lit("cto"), Lit("cfo"), Lit("cio"), Lit("cro"), Lit("cmo")}
PatEvpSvp == {Word("evp"), Word("svp"), Lit("executive vice president"),
              Lit("senior vice president")}
PatVp == {Lit("vice president"), Word("vp"), Word("v.p.")}
PatDirector == {Lit("director"), Lit("head of")}
PatManager == {Lit("manager"), Lit("lead"), Lit("supervisor")}
PatOfficer == {Lit("officer"), Lit("avp"), Lit("assistant vice president")}
PatLending == {Lit("lend"), Lit("mortgage"), Lit("loan"), Lit("credit"),
               Lit("origination"), Lit("abl")}
PatTech == {Lit("tech"), Lit("technology"), Lit("it"), Lit("digital"), Lit("data"),
            Lit("analytics"), Lit("ai"), Lit("software")}
PatOperations == {Lit("operat"), Lit("process"), Lit("delivery"), Lit("service"),
                  Lit("support")}
PatRisk == {Lit("risk"), Lit("compliance"), Lit("security"), Lit("audit")}
PatFinance == {Lit("finance"), Lit("fpa"), Lit("treasury")}
PatStrategy == {Lit("strategy"), Lit("transformation"), Lit("innovation"), Lit("growth")}

\* int(bool(...))
BoolInt(b) == IF b THEN 1 ELSE 0

---------------------------------------------------------------------------
(* DynamicFeatureBuilder._extract_title_from_linkedin: the title, or the   *)
(* AttributeError of a .get on a value that is not a mapping               *)

Raised == [raised |-> TRUE]

Falsy(d) == ~Truthy(d)

Field(d, key) == IF key \in DOMAIN d THEN d[key] ELSE Missing

\* the loop over the experience list, from entry i on
RECURSIVE ScanExperience(_, _, _)
ScanExperience(exp, i, title) ==
    IF i > Len(exp) THEN [raised |-> FALSE, title |-> title]
    ELSE LET e == exp[i]
         IN  IF e.k # "dict" THEN Raised
             ELSE IF Truthy(Field(e, "is_current")) /\ Truthy(Field(e, "title"))
                  THEN [raised |-> FALSE, title |-> e.title]
                  ELSE ScanExperience(exp, i + 1, title)

_extract_title_from_linkedin(ld) ==
    IF Falsy(ld) THEN [raised |-> FALSE, title |-> Str("")]
    ELSE IF ld.k # "dict" THEN Raised
    ELSE LET basic == IF Field(ld, "basic_info") = Missing THEN EmptyDict
                      ELSE ld.basic_info
             exp == Field(ld, "experience")
         IN  IF basic.k \notin {"dict", "emptydict"} THEN Raised
             ELSE LET title == OrEmpty(Field(basic, "headline"))
                  IN  IF exp.k = "list" /\ Len(exp.v) > 0
                      THEN ScanExperience(exp.v, 1, title)
                      ELSE [raised |-> FALSE, title |-> title]

---------------------------------------------------------------------------
(* DynamicFeatureBuilder.build_features                                    *)

\* the keys of the feature row, in the order of the dict literal
RowKeys ==
    << "is_ceo", "is_c_level", "is_evp_svp", "is_vp", "is_director", "is_manager",
       "is_officer", "in_lending", "in_tech", "in_operations", "in_risk",
       "in_finance", "in_strategy", "designation_length", "designation_word_count",
       "seniority_score", "dept_score", "size_numeric", "size_51_200",
       "size_201_500", "size_501_1000", "size_1001_5000", "size_5000_plus",
       "revenue_millions", "revenue_category", "activity_days", "is_active_week",
       "is_active_month", "is_consumer_lending", "is_commercial_banking",
       "is_retail_banking", "is_fintech", "is_credit_union", "Desig_Score",
       "Size_Score", "Revenue_Score", "Activity_Score", "activity_missing" >>

\* user_data.get(key, "") or ""
ManualField(ud, key) == OrEmpty(Field(ud, key)).v

\* a conversion that reads a missing value as 0.0 instead of failing
ActivityFloatNoneIsZero(raw) ==
    CASE raw.k = "num" -> [nan |-> FALSE, val |-> raw.v * DecScale]
      [] raw.k = "str" -> LET f == ParseFloat(raw.v)
                          IN  [nan |-> ~f.ok, val |-> f.val]
      [] OTHER -> [nan |-> FALSE, val |-> 0]

\* float(activity_days_raw) in hundredths; nan when the conversion raises
ActivityFloat(raw) ==
    CASE raw.k = "num" -> [nan |-> FALSE, val |-> raw.v * DecScale]
      [] raw.k = "str" -> LET f == ParseFloat(raw.v)
                          IN  [nan |-> ~f.ok, val |-> f.val]
      [] OTHER -> [nan |-> TRUE, val |-> 0]

\* a clip without the upper limit
ClipNoCeiling(x, lo, hi) == IF x < lo THEN lo ELSE x

\* np.clip(x, lo, hi)
Clip(x, lo, hi) == IF x < lo THEN lo ELSE IF x > hi THEN hi ELSE x

\* the top bucket entered one employee late
Size_ScoreLateTop(size_numeric) ==
    IF size_numeric > 5000 THEN 5
    ELSE IF size_numeric >= 1001 THEN 4
    ELSE IF size_numeric >= 501 THEN 3
    ELSE IF size_numeric >= 201 THEN 2
    ELSE IF size_numeric >= 51 THEN 1
    ELSE 0

Size_Score(size_numeric) ==
    IF size_numeric >= 5000 THEN 5
    ELSE IF size_numeric >= 1001 THEN 4
    ELSE IF size_numeric >= 501 THEN 3
    ELSE IF size_numeric >= 201 THEN 2
    ELSE IF size_numeric >= 51 THEN 1
    ELSE 0

\* a score that does not single out the revenue 0
Revenue_ScoreZeroScored(revenue_millions) ==
    IF revenue_millions >= 500 * DecScale THEN 5
    ELSE IF revenue_millions >= 100 * DecScale THEN 4
    ELSE IF revenue_millions >= 50 * DecScale THEN 3
    ELSE IF revenue_millions >= 20 * DecScale THEN 2
    ELSE 1

Revenue_Score(revenue_millions) ==
    IF revenue_millions >= 500 * DecScale THEN 5
    ELSE IF revenue_millions >= 100 * DecScale THEN 4
    ELSE IF revenue_millions >= 50 * DecScale THEN 3
    ELSE IF revenue_millions >= 20 * DecScale THEN 2
    ELSE IF revenue_millions > 0 THEN 1
    ELSE 0

\* the five size bucket flags
SizeFlags(size_numeric) ==
    [size_51_200 |-> BoolInt(51 <= size_numeric /\ size_numeric <= 200),
     size_201_500 |-> BoolInt(201 <= size_numeric /\ size_numeric <= 500),
     size_501_1000 |-> BoolInt(501 <= size_numeric /\ size_numeric <= 1000),
     size_1001_5000 |-> BoolInt(1001 <= size_numeric /\ size_numeric <= 5000),
     size_5000_plus |-> BoolInt(size_numeric >= 5000)]

\* the keyword flags of the lower-cased title
TitleFlags(title_l) ==
    [is_ceo |-> BoolInt(Search(PatCeo, title_l)),
     is_c_level |-> BoolInt(Search(PatCLevel, title_l)),
     is_evp_svp |-> BoolInt(Search(PatEvpSvp, title_l)),
     is_vp |-> BoolInt(Search(PatVp, title_l)),
     is_director |-> BoolInt(Search(PatDirector, title_l)),
     is_manager |-> BoolInt(Search(PatManager, title_l)),
     is_officer |-> BoolInt(Search(PatOfficer, title_l)),
     in_lending |-> BoolInt(Search(PatLending, title_l)),
     in_tech |-> BoolInt(Search(PatTech, title_l)),
     in_operations |-> BoolInt(Search(PatOperations, title_l)),
     in_risk |-> BoolInt(Search(PatRisk, title_l)),
     in_finance |-> BoolInt(Search(PatFinance, title_l)),
     in_strategy |-> BoolInt(Search(PatStrategy, title_l))]

seniority_score(kw) ==
    kw.is_ceo * 5 + kw.is_c_level * 4 + kw.is_evp_svp * 3 + kw.is_vp * 2
    + kw.is_director * 2 + kw.is_manager * 1 + kw.is_officer * 1

dept_score(kw) ==
    kw.in_lending * 2 + kw.in_finance * 2 + kw.in_risk * 2 + kw.in_strategy * 1
    + kw.in_operations * 1 + kw.in_tech * 1

\* the dict "row" from the values computed before it: the lower-cased title
\* and industry, the keyword flags, the size with its bucket flags, the
\* revenue, whether the activity is missing and the clipped activity days
RowOf(title_l, industry_l, kw, size_numeric, flags, revenue_millions, activity_nan, activity_days_final) ==
    [is_ceo |-> kw.is_ceo, is_c_level |-> kw.is_c_level, is_evp_svp |-> kw.is_evp_svp,
     is_vp |-> kw.is_vp, is_director |-> kw.is_director, is_manager |-> kw.is_manager,
     is_officer |-> kw.is_officer,
     in_lending |-> kw.in_lending, in_tech |-> kw.in_tech,
     in_operations |-> kw.in_operations, in_risk |-> kw.in_risk,
     in_finance |-> kw.in_finance, in_strategy |-> kw.in_strategy,
     designation_length |-> Len(title_l),
     designation_word_count |-> IF title_l # "" THEN WordCount(title_l) ELSE 0,
     seniority_score |-> seniority_score(kw), dept_score |-> dept_score(kw),
     size_numeric |-> size_numeric,
     size_51_200 |-> flags.size_51_200, size_201_500 |-> flags.size_201_500,
     size_501_1000 |-> flags.size_501_1000,
     size_1001_5000 |-> flags.size_1001_5000,
     size_5000_plus |-> flags.size_5000_plus,
     revenue_millions |-> revenue_millions,
     revenue_category |-> _get_revenue_category(revenue_millions),
     activity_days |-> activity_days_final,
     is_active_week |-> BoolInt(activity_days_final <= 7 * DecScale),
     is_active_month |-> BoolInt(activity_days_final <= 30 * DecScale),
     is_consumer_lending |->
         BoolInt(Contains(industry_l, "consumer") /\ Contains(industry_l, "lend")),
     is_commercial_banking |->
         BoolInt(Contains(industry_l, "commercial")
                 \/ Contains(industry_l, "corporate banking")),
     is_retail_banking |->
         BoolInt(Contains(industry_l, "retail")
                 \/ Contains(industry_l, "personal banking")),
     is_fintech |->
         BoolInt(Contains(industry_l, "fintech") \/ Contains(industry_l, "digital bank")),
     is_credit_union |->
         BoolInt(Contains(industry_l, "credit union")
                 \/ Contains(industry_l, "cooperative")),
     Desig_Score |-> seniority_score(kw) + dept_score(kw),
     Size_Score |-> Size_Score(size_numeric),
     Revenue_Score |-> Revenue_Score(revenue_millions),
     Activity_Score |-> _compute_activity_score(activity_days_final),
     activity_missing |-> BoolInt(activity_nan)]

\* the row from the lower-cased texts, the parsed size and revenue and the
\* converted activity days
RowOfParsed(title_l, industry_l, size_numeric, revenue_millions, act) ==
    RowOf(title_l, industry_l, TitleFlags(title_l),
          size_numeric, SizeFlags(size_numeric), revenue_millions, act.nan,
          Clip(IF act.nan THEN 30 * DecScale ELSE act.val, 0, 180 * DecScale))

\* the dict "row" built from a title and the manual fields
FeatureRow(title, company_size, annual_revenue, industry, activity_days_raw) ==
    RowOfParsed(_safe_lower(title), _safe_lower(Str(industry)),
                _parse_size_to_number(company_size),
                _parse_revenue_millions(annual_revenue),
                ActivityFloat(activity_days_raw))

\* pd.DataFrame([row]): one column per key, in the order of the dict
RowFrame(row) == [i \in 1 .. Len(RowKeys) |-> [name |-> RowKeys[i], val |-> Num(row[RowKeys[i]])]]

ColumnNames(df) == {df[i].name : i \in 1 .. Len(df)}

ColumnOf(df, name) == (CHOOSE i \in 1 .. Len(df) : df[i].name = name)

\* for col in names: if col not in df.columns: df[col] = 0
RECURSIVE AddMissing(_, _, _)
AddMissing(df, names, i) ==
    IF i > Len(names) THEN df
    ELSE IF names[i] \in ColumnNames(df) THEN AddMissing(df, names, i + 1)
    ELSE AddMissing(Append(df, [name |-> names[i], val |-> Num(0)]), names, i + 1)

\* a selection that keeps the frame's own columns and order
SelectKeepsFrame(df, names) == df

\* df[names]: the named columns, in the order of names
Select(df, names) == [i \in 1 .. Len(names) |-> df[ColumnOf(df, names[i])]]

\* "Ensure feature columns match model"
MatchModel(df, model_feature_names) ==
    IF Len(model_feature_names) > 0
    THEN Select(AddMissing(df, model_feature_names, 1), model_feature_names)
    ELSE df

\* build_features once the row is there: the frame matched to the model
BuiltRow(title, row, model_feature_names) ==
    [raised |-> FALSE, title |-> title, row |-> row,
     features_df |-> MatchModel(RowFrame(row), model_feature_names)]

\* build_features once the title is there: t is what
\* _extract_title_from_linkedin did, user is user_data or {}
BuildFromTitle(t, ld, user, model_feature_names) ==
    IF t.raised THEN Raised
    ELSE BuiltRow(t.title,
                  FeatureRow(t.title,
                             ManualField(user, "company_size"),
                             ManualField(user, "annual_revenue"),
                             ManualField(user, "industry"),
                             IF Falsy(ld) THEN NoneV ELSE Field(ld, "activity_days")),
                  model_feature_names)

build_features(ld, ud, model_feature_names) ==
    BuildFromTitle(_extract_title_from_linkedin(ld), ld,
                   IF ud.k = "none" THEN EmptyDict ELSE ud, model_feature_names)

---------------------------------------------------------------------------
(* ModelPredictor._align_features                                          *)

\* pd.to_numeric(cell, errors="coerce") followed by fillna(0)
ToNumeric(cell) ==
    CASE cell.k = "num" -> cell
      [] cell.k = "str" ->
            LET f == ParseFloat(cell.v)
            IN  IF ~f.ok THEN Num(0)
                ELSE IF f.val % DecScale = 0 THEN Num(f.val \div DecScale)
                ELSE [k |-> "milli", v |-> f.val]
      [] OTHER -> Num(0)

_align_features(df, names) ==
    LET kept == Select(AddMissing(df, names, 1), names)
    IN  [i \in 1 .. Len(kept) |-> [name |-> kept[i].name, val |-> ToNumeric(kept[i].val)]]

---------------------------------------------------------------------------
(* ModelPredictor: loading, prediction, explanation.  A probability is a   *)
(* float, an integer number of hundredths like every float of the model.   *)
(* A classifier is a record [classes, importances]: the number of classes  *)
(* of predict_proba and feature_importances_ (Missing if the model has no  *)
(* such attribute).  A Python dict with string keys and plain values       *)
(* (reverse_mapping, probability_distribution) is a function on its keys.  *)

\* {}
EmptyMapping == [key \in {} |-> ""]

\* d.get(key, default) of a dict modelled as a function
Get(d, key, default) == IF key \in DOMAIN d THEN d[key] ELSE default

\* str(i) of a class index
IndexStr(i) == Ch("0123456789", i + 1)

\* np.argmax(probs), np.max(probs): the first index (from 0) of the maximum
ArgMax(p) ==
    (CHOOSE i \in 1 .. Len(p) :
        /\ \A j \in 1 .. Len(p) : p[j] <= p[i]
        /\ \A j \in 1 .. (i - 1) : p[j] < p[i]) - 1

MaxOf(p) == p[ArgMax(p) + 1]

\* round(x) of a float in hundredths: the nearest integer, halves to even
RoundInt(x) ==
    LET lo == x \div DecScale
        rest == x % DecScale
    IN  IF 2 * rest < DecScale THEN lo
        ELSE IF 2 * rest > DecScale THEN lo + 1
        ELSE IF lo % 2 = 0 THEN lo ELSE lo + 1

\* round(x, 2) of a float in hundredths
Round2(x) == RoundInt(x * DecScale)

\* the value of a numeric cell in hundredths
CellHundredths(cell) == IF cell.k = "num" THEN cell.v * DecScale ELSE cell.v

Abs(n) == IF n < 0 THEN -n ELSE n

\* a returned frame, as opposed to Raised
Returned(q) == [raised |-> FALSE, rows |-> q]

\* ModelPredictor.get_feature_importance: one row per feature, the empty
\* frame without feature_importances_, Raised when the two columns of the
\* frame differ in length
get_feature_importance(m, names) ==
    IF m.importances = Missing THEN Returned(<< >>)
    ELSE IF Len(m.importances.v) # Len(names) THEN Raised
    ELSE Returned([i \in 1 .. Len(names) |->
                      [feature |-> names[i], importance |-> m.importances.v[i]]])

\* a sort by the product of importance and abs_value
SortedBeforeByProduct(a, b) ==
    a.importance * Abs(CellHundredths(a.value))
        >= b.importance * Abs(CellHundredths(b.value))

\* the order of sort_values(by=["importance", "abs_value"], ascending=False)
SortedBefore(a, b) ==
    \/ a.importance > b.importance
    \/ a.importance = b.importance
          /\ Abs(CellHundredths(a.value)) >= Abs(CellHundredths(b.value))

\* df.head(n)
Head_n(q, n) == SubSeq(q, 1, IF n < Len(q) THEN n ELSE Len(q))

\* ModelPredictor.explain_prediction: the frames the call can return (rows
\* with equal sort keys come in any order), or Raised
explain_prediction(m, names, X_row, n) ==
    LET aligned == _align_features(X_row, names)
        imp_df == get_feature_importance(m, names)
    IN  IF imp_df.raised THEN {Raised}
        ELSE IF Len(imp_df.rows) = 0 THEN {Returned(<< >>)}
        ELSE LET rows == {[feature |-> imp_df.rows[i].feature,
                           value |-> aligned[i].val,
                           importance |-> imp_df.rows[i].importance] :
                              i \in {j \in 1 .. Len(imp_df.rows) :
                                        imp_df.rows[j].importance > 0}}
                 k == Cardinality(rows)
                 sorted == {q \in [1 .. k -> rows] :
                               /\ \A i, j \in 1 .. k : q[i] = q[j] => i = j
                               /\ \A i, j \in 1 .. k : i < j => SortedBefore(q[i], q[j])}
             IN  {Returned(Head_n(q, n)) : q \in sorted}

\* the sentinel of an unmapped predicted class
UnknownLabel == "UNKNOWN"

\* the label of a class index in probability_distribution
DistLabel(rm, class_idx) == Get(rm, IndexStr(class_idx), IndexStr(class_idx))

\* prob_dist after the loop over enumerate(probs): a later class overwrites
\* an earlier one of the same label
ProbDist(rm, p) ==
    [label \in {DistLabel(rm, i - 1) : i \in 1 .. Len(p)} |->
        p[CHOOSE i \in 1 .. Len(p) :
              /\ DistLabel(rm, i - 1) = label
              /\ \A j \in 1 .. Len(p) : DistLabel(rm, j - 1) = label => j <= i]]

\* a frame without rows, and a frame of one row
NoRows == [k |-> "norows"]
Frame(cols) == [k |-> "frame", cols |-> cols]

\* what predict_proba did: not called, raised, or returned probabilities
NotCalled == [called |-> FALSE]
ProbaRaised == [called |-> TRUE, raised |-> TRUE]
ProbaReturned(p) == [called |-> TRUE, raised |-> FALSE, val |-> p]

\* the result dict of a successful predict
PredictResult(rm, p, reasons) ==
    [priority |-> Get(rm, IndexStr(ArgMax(p)), UnknownLabel),
     confidence |-> Round2(MaxOf(p) * 100),
     score |-> RoundInt(MaxOf(p) * 100),
     probability_distribution |-> ProbDist(rm, p),
     top_reasons |-> reasons]

\* top_n of the explanation inside predict
DefaultTopN == 6

\* a predict whose failure result still names a priority
predictWithPriorityOnFailure(m, names, rm, x, out, reasons) ==
    IF x.k \in {"none", "norows"}
    THEN [ret |-> << [error |-> "Empty input features"], EmptyDict >>,
          aligned |-> Null, probs |-> NotCalled]
    ELSE LET aligned == _align_features(x.cols, names)
             debug_info == [features_before_model |-> aligned]
         IN  IF out.raised
             THEN [ret |-> << [error |-> "Model returned no prediction: failure",
                               priority |-> UnknownLabel],
                              debug_info >>,
                   aligned |-> aligned, probs |-> out]
             ELSE [ret |-> << PredictResult(rm, out.val,
                                  IF reasons.raised THEN << >> ELSE reasons.rows),
                              debug_info >>,
                   aligned |-> aligned, probs |-> out]

\* ModelPredictor.predict(x), given what predict_proba does on the call
\* (out) and what explain_prediction returns: the tuple (result, debug_info),
\* the aligned frame and the call made to the classifier
predict(m, names, rm, x, out, reasons) ==
    IF x.k \in {"none", "norows"}
    THEN [ret |-> << [error |-> "Empty input features"], EmptyDict >>,
          aligned |-> Null, probs |-> NotCalled]
    ELSE LET aligned == _align_features(x.cols, names)
             debug_info == [features_before_model |-> aligned]
         IN  IF out.raised
             THEN [ret |-> << [error |-> "Model returned no prediction: failure"],
                              debug_info >>,
                   aligned |-> aligned, probs |-> out]
             ELSE [ret |-> << PredictResult(rm, out.val,
                                  IF reasons.raised THEN << >> ELSE reasons.rows),
                              debug_info >>,
                   aligned |-> aligned, probs |-> out]

\* a load that accepts a manifest without checking its two entries
_load_allUnchecked(pkl, json) ==
    LET fresh == [raised |-> TRUE, model |-> NoneV, metadata |-> NoneV,
                  feature_names |-> << >>, reverse_mapping |-> EmptyMapping]
    IN  IF pkl = Missing THEN fresh
        ELSE IF json = Missing THEN fresh
        ELSE IF json.k # "dict" THEN [fresh EXCEPT !.model = pkl]
        ELSE [raised |-> FALSE, model |-> pkl, metadata |-> json,
              feature_names |-> Get(json, "feature_names", << >>),
              reverse_mapping |-> Get(json, "reverse_mapping", EmptyMapping)]

\* ModelPredictor.__init__ and _load_all: the attributes when the constructor
\* returns or raises; a file is Missing when absent, and metadata that is not
\* a JSON object makes the load raise
_load_all(pkl, json) ==
    LET fresh == [raised |-> TRUE, model |-> NoneV, metadata |-> NoneV,
                  feature_names |-> << >>, reverse_mapping |-> EmptyMapping]
    IN  IF pkl = Missing THEN fresh
        ELSE IF json = Missing THEN fresh
        ELSE IF json.k # "dict" THEN [fresh EXCEPT !.model = pkl]
        ELSE LET names == Get(json, "feature_names", << >>)
                 rm == Get(json, "reverse_mapping", EmptyMapping)
             IN  [raised |-> names = << >> \/ DOMAIN rm = {},
                  model |-> pkl, metadata |-> json,
                  feature_names |-> names, reverse_mapping |-> rm]

---------------------------------------------------------------------------
(* core/apify_extractor.py: LinkedInAPIExtractor.  An HTTP response is     *)
(* [status_code, body]; the body is the decoded JSON as a tagged value, or *)
(* NotJson when resp.json() raises; RequestRaised is a request that        *)
(* raised.  A Python list of posts is a sequence.                          *)

RequestRaised == [k |-> "raised"]
NotJson == [k |-> "notjson"]
Response(status_code, body) == [k |-> "response", status_code |-> status_code, body |-> body]

\* milliseconds in a day, and datetime.now() as milliseconds since the epoch
DayMs == 24 * 3600 * 1000
NowMs == 20 * DayMs

\* LinkedInAPIExtractor.compute_activity_days_from_posts
compute_activity_days_from_posts(posts) ==
    IF Len(posts) = 0 THEN NoneV
    ELSE IF posts[1].k \notin {"dict", "emptydict"} THEN Raised
    ELSE LET posted_at == IF Field(posts[1], "posted_at").k = "missing" THEN EmptyDict
                          ELSE Field(posts[1], "posted_at")
         IN  IF posted_at.k \notin {"dict", "emptydict"} THEN Raised
             ELSE LET ts == Field(posted_at, "timestamp")
                  IN  IF ~Truthy(ts) THEN NoneV
                      ELSE IF ts.k = "num"
                           THEN LET days == (NowMs - ts.v) \div DayMs
                                IN  Num(IF days > 0 THEN days ELSE 0)
                      ELSE IF ts.k = "str" /\ ts.v # "" /\ AllDigits(ts.v)
                           THEN LET days == (NowMs - DigitsVal(ts.v)) \div DayMs
                                IN  Num(IF days > 0 THEN days ELSE 0)
                      ELSE NoneV

\* int(x): a number, a bool, or text of an optional sign and digits;
\* anything else raises (ok = FALSE)
PyInt(x) ==
    CASE x.k = "num" -> [ok |-> TRUE, val |-> x.v]
      [] x.k = "bool" -> [ok |-> TRUE, val |-> IF x.v THEN 1 ELSE 0]
      [] x.k = "str" ->
            LET t == Strip(x.v)
                signed == Len(t) > 0 /\ Ch(t, 1) \in {"+", "-"}
                body == IF signed THEN Drop(t, 1) ELSE t
            IN  IF body # "" /\ AllDigits(body)
                THEN [ok |-> TRUE,
                      val |-> IF signed /\ Ch(t, 1) = "-" THEN 0 - DigitsVal(body)
                              ELSE DigitsVal(body)]
                ELSE [ok |-> FALSE, val |-> 0]
      [] OTHER -> [ok |-> FALSE, val |-> 0]

\* a sort key that puts a post without a usable timestamp first
get_tsUnusableFirst(post) ==
    IF post.k \notin {"dict", "emptydict"} THEN NowMs
    ELSE LET posted_at == Get(post, "posted_at", EmptyDict)
         IN  IF posted_at.k \notin {"dict", "emptydict"} THEN NowMs
             ELSE LET n == PyInt(Get(posted_at, "timestamp", Num(0)))
                  IN  IF n.ok THEN n.val ELSE NowMs

\* get_ts of extract_recent_posts: every exception gives 0
get_ts(post) ==
    IF post.k \notin {"dict", "emptydict"} THEN 0
    ELSE LET posted_at == Get(post, "posted_at", EmptyDict)
         IN  IF posted_at.k \notin {"dict", "emptydict"} THEN 0
             ELSE LET n == PyInt(Get(posted_at, "timestamp", Num(0)))
                  IN  IF n.ok THEN n.val ELSE 0

\* one insertion of a stable sort in descending key order: p goes behind
\* every element whose key is not smaller
RECURSIVE InsertByTs(_, _)
InsertByTs(q, p) ==
    IF Len(q) = 0 THEN << p >>
    ELSE IF get_ts(q[1]) >= get_ts(p) THEN << q[1] >> \o InsertByTs(Tail(q), p)
    ELSE << p >> \o q

\* sorted(data, key=get_ts, reverse=True); the sort is stable
RECURSIVE SortedByTs(_)
SortedByTs(data) ==
    IF Len(data) = 0 THEN << >>
    ELSE InsertByTs(SortedByTs(SubSeq(data, 1, Len(data) - 1)), data[Len(data)])

\* data[:limit]
SliceTo(data, limit) ==
    LET stop == IF limit >= 0 THEN limit ELSE Len(data) + limit
    IN  SubSeq(data, 1, IF stop > Len(data) THEN Len(data)
                        ELSE IF stop < 0 THEN 0 ELSE stop)

\* LinkedInAPIExtractor.extract_recent_posts, given what the request did
extract_recent_posts(response, limit) ==
    IF response.k = "raised" THEN << >>
    ELSE IF response.status_code \notin {200, 201} THEN << >>
    ELSE IF response.body.k # "list" THEN << >>
    ELSE SliceTo(SortedByTs(response.body.v), limit)

\* LinkedInAPIExtractor._extract_username: the username, NoneV for None
_extract_username(url) ==
    IF url = "" THEN NoneV
    ELSE LET u == Strip(url)
             marker == "linkedin.com/in/"
         IN  IF Contains(u, marker)
             THEN LET at == CHOOSE i \in 1 .. Len(u) :
                               /\ SubSeq(u, i, i + Len(marker) - 1) = marker
                               /\ \A j \in 1 .. (i - 1) :
                                     SubSeq(u, j, j + Len(marker) - 1) # marker
                      rest == Drop(u, at + Len(marker) - 1)
                      \* split(marker)[1]: up to the next occurrence of the marker
                      part == IF Contains(rest, marker)
                              THEN SubSeq(rest, 1,
                                     (CHOOSE i \in 1 .. Len(rest) :
                                        /\ SubSeq(rest, i, i + Len(marker) - 1) = marker
                                        /\ \A j \in 1 .. (i - 1) :
                                              SubSeq(rest, j, j + Len(marker) - 1) # marker)
                                     - 1)
                              ELSE rest
                      slash == FirstIndex(part, "/")
                      seg == IF slash = 0 THEN part ELSE SubSeq(part, 1, slash - 1)
                      query == FirstIndex(seg, "?")
                      username == Strip(IF query = 0 THEN seg
                                        ELSE SubSeq(seg, 1, query - 1))
                  IN  IF username = "" THEN NoneV ELSE Str(username)
             ELSE IF ~Contains(u, "/") /\ ~Contains(u, " ") THEN Str(u)
             ELSE NoneV

\* timeout of the call self._wait_for_run(run_id, timeout=180), seconds
PollTimeout == 180

\* time.sleep(4) between two status lookups, seconds
SleepSeconds == 4

\* timeout of the request in _get_run_status, seconds
StatusRequestTimeout == 15

\* a loop condition that still polls when the elapsed time equals the timeout
LoopContinuesAtTimeout(e, timeout) == e <= timeout

\* the condition of the while loop of _wait_for_run
LoopContinues(e, timeout) == e < timeout

\* the statuses on which _wait_for_run gives up
GivesUp(status) == status \in {"FAILED", "ABORTED", "TIMED_OUT"}

\* LinkedInAPIExtractor._run_profile_actor: run is what _start_actor_run
\* returned, ok what _wait_for_run returned, items what _fetch_dataset_items
\* returned
_run_profile_actor(run, ok, items) ==
    IF Falsy(run) THEN NoneV
    ELSE IF Falsy(Get(run, "id", NoneV)) \/ Falsy(Get(run, "defaultDatasetId", NoneV))
         THEN NoneV
    ELSE IF ~ok THEN NoneV
    ELSE IF items.k = "list" /\ Len(items.v) > 0 THEN items.v[1]
    ELSE IF items.k = "dict" THEN items
    ELSE NoneV

\* limit of the posts request inside extract_profile
ProfilePostsLimit == 2

\* LinkedInAPIExtractor.extract_profile: actor_data is what _run_profile_actor
\* returned and response the answer to the posts request; the profile with
\* recent_posts and activity_days attached, NoneV, or Raised
extract_profile(linkedin_url, actor_data, response) ==
    IF Falsy(_extract_username(linkedin_url)) THEN NoneV
    ELSE IF Falsy(actor_data) THEN NoneV
    ELSE LET first == IF actor_data.k = "list" THEN actor_data.v[1] ELSE actor_data
             posts == extract_recent_posts(response, ProfilePostsLimit)
             activity_days == compute_activity_days_from_posts(posts)
         IN  IF activity_days = Raised THEN Raised
             ELSE IF first.k # "dict" THEN Raised
             ELSE [recent_posts |-> List(posts), activity_days |-> activity_days] @@ first

---------------------------------------------------------------------------
(* app.py: DynamicLeadScoringApp.  The Streamlit session state is one      *)
(* record; every attribute holds a tagged value (NoneV for None).  A       *)
(* Python tuple is Tuple(t).  A handler returns the session state it       *)
(* leaves, what it wrote on the page, and whether it raised.               *)

Tuple(t) == [k |-> "tuple", v |-> t]

\* the defaults of _init_session_state, with the value of the URL widget
\* (st.text_input key "linkedin_url"); debug_info is absent until it is set
SessionDefaults ==
    [raw_linkedin_data |-> NoneV, raw_company_data |-> NoneV,
     user_input_data |-> EmptyDict, final_features |-> NoneV,
     prediction |-> NoneV, ready_for_scoring |-> FALSE,
     last_linkedin_url |-> "", linkedin_url |-> "", debug_info |-> Missing]

_reset_prospect_state(ss) ==
    [ss EXCEPT !.raw_linkedin_data = NoneV, !.raw_company_data = NoneV,
               !.final_features = NoneV, !.prediction = NoneV,
               !.ready_for_scoring = FALSE]

\* the for loop of _extract_current_company from entry i on
RECURSIVE ScanCurrent(_, _)
ScanCurrent(exp, i) ==
    IF i > Len(exp) THEN [raised |-> FALSE, company |-> exp[1]]
    ELSE IF exp[i].k \notin {"dict", "emptydict"} THEN Raised
    ELSE IF Truthy(Get(exp[i], "is_current", Bool(FALSE)))
         THEN [raised |-> FALSE, company |-> exp[i]]
         ELSE ScanCurrent(exp, i + 1)

\* _extract_current_company: iterating a truthy value that is no list of
\* mappings raises
_extract_current_company(ld) ==
    LET experiences == Get(ld, "experience", List(<< >>))
    IN  IF Falsy(experiences) THEN [raised |-> FALSE, company |-> NoneV]
        ELSE IF experiences.k # "list" THEN Raised
        ELSE ScanCurrent(experiences.v, 1)

\* _show_extracted_data: the preview lines, or the AttributeError of a .get
\* on a value that is not a mapping
_show_extracted_data(ss) ==
    IF Falsy(ss.raw_linkedin_data) THEN [raised |-> FALSE, preview |-> << >>]
    ELSE LET basic_info == Get(ss.raw_linkedin_data, "basic_info", EmptyDict)
             current == _extract_current_company(ss.raw_linkedin_data)
         IN  IF basic_info.k \notin {"dict", "emptydict"} THEN Raised
             ELSE IF current.raised THEN Raised
             ELSE IF Get(basic_info, "location", EmptyDict).k \notin {"dict", "emptydict"}
                  THEN Raised
             ELSE [raised |-> FALSE,
                   preview |-> << Get(basic_info, "fullname", NoneV),
                                  Get(basic_info, "headline", NoneV),
                                  IF Truthy(current.company)
                                  THEN Get(current.company, "title", NoneV)
                                  ELSE NoneV >>]

\* what a handler leaves: the session state and the st.error it showed
Left(ss, error) == [ss |-> ss, error |-> error]

\* debug_info of build_features: the title and the model feature values
DebugInfo(b) == [k |-> "dict", title |-> b.title, features |-> b.features_df]

\* the end of _extract_all_data, lines 254-257: the preview, then the flag
ShowAndEnable(built_state) ==
    IF _show_extracted_data(built_state).raised
    THEN Left(built_state, "Extraction failed")
    ELSE Left([built_state EXCEPT !.ready_for_scoring = TRUE], "")

\* _extract_all_data from line 244 on: b is what build_features did
StoreFeatures(stored, b) ==
    IF b.raised THEN Left(stored, "Extraction failed")
    ELSE ShowAndEnable([stored EXCEPT !.debug_info = DebugInfo(b),
                                      !.final_features = Frame(b.features_df)])

\* _extract_all_data: profile is what linkedin_extractor.extract_profile did
\* (a profile, NoneV or Raised); self.company_api is None in every script run
\* that reaches this handler, so raw_company_data stays None; an exception
\* after line 206 is caught with the profile already stored; b is what
\* build_features does with the profile and the saved manual fields
_extract_all_data(ss, profile, b) ==
    IF profile = Raised THEN Left(_reset_prospect_state(ss), "Extraction failed")
    ELSE IF Falsy(profile)
         THEN Left(_reset_prospect_state(ss), "LinkedIn extraction failed")
    ELSE IF _extract_current_company(profile).raised
         THEN Left([_reset_prospect_state(ss) EXCEPT !.raw_linkedin_data = profile],
                   "Extraction failed")
    ELSE StoreFeatures([_reset_prospect_state(ss) EXCEPT !.raw_linkedin_data = profile], b)

\* the reset of render_input_section when the user changed the URL
UrlTracked(ss) ==
    IF ss.linkedin_url # "" /\ Strip(ss.linkedin_url) # ss.last_linkedin_url
    THEN _reset_prospect_state([ss EXCEPT !.last_linkedin_url = Strip(ss.linkedin_url)])
    ELSE ss

\* render_input_section with a configured extractor: the reset on a changed
\* URL, then the extraction if the button was clicked; extraction is what
\* self._extract_all_data(linkedin_url) leaves when called at that point
render_input_section(ss, extract_clicked, extraction) ==
    IF extract_clicked /\ ss.linkedin_url # ""
    THEN extraction
    ELSE Left(UrlTracked(ss), "")

\* _display_results: the values put on the page, or the AttributeError of
\* prediction.get on a tuple
_display_results(p) ==
    IF p.k = "tuple" THEN Raised
    ELSE [raised |-> FALSE,
          priority |-> Get(p.v, "priority", UnknownLabel),
          confidence |-> Get(p.v, "confidence", 0),
          probabilities |-> Get(p.v, "probabilities", EmptyMapping)]

\* nothing of the scoring results is on the page
NoResults == [raised |-> FALSE, priority |-> "", confidence |-> 0,
              probabilities |-> EmptyMapping]

\* what render_scoring_section leaves: the state, whether a display raised
\* and what the displays put on the page
Displayed(scored, preview, results) ==
    [ss |-> scored,
     raised |-> preview.raised \/ results.raised,
     results |-> IF preview.raised THEN Raised ELSE results]

\* render_scoring_section from line 353 on, with the session state that
\* the button handler left
DisplayAll(scored) ==
    Displayed(scored, _show_extracted_data(scored),
              IF Truthy(scored.prediction) THEN _display_results(scored.prediction)
              ELSE NoResults)

\* render_scoring_section: returned is what predict returned if the button
\* was clicked; the two displays at its end are outside the try
render_scoring_section(ss, generate_clicked, returned) ==
    IF ~ss.ready_for_scoring
    THEN [ss |-> ss, raised |-> FALSE, results |-> NoResults]
    ELSE DisplayAll(IF generate_clicked THEN [ss EXCEPT !.prediction = Tuple(returned)]
                    ELSE ss)

\* render_sidebar: the manual form, saved when it was submitted
render_sidebar(ss, submitted, manual) ==
    IF submitted THEN [ss EXCEPT !.user_input_data = manual] ELSE ss

\* run after the scoring section: the sidebar unless the section raised
AfterScoring(input, scoring, submitted, manual) ==
    [ss |-> IF scoring.raised THEN scoring.ss
            ELSE render_sidebar(scoring.ss, submitted, manual),
     uncaught |-> scoring.raised,
     screen |-> [error |-> input.error, results |-> scoring.results]]

\* run after the input section
AfterInput(input, generate_clicked, returned, submitted, manual) ==
    AfterScoring(input, render_scoring_section(input.ss, generate_clicked, returned),
                 submitted, manual)

\* DynamicLeadScoringApp.run, one script run: the input section, the scoring
\* section and the sidebar; an uncaught exception ends the run before the
\* sidebar
run(ss, extract_clicked, extraction, generate_clicked, returned, submitted, manual) ==
    AfterInput(render_input_section(ss, extract_clicked, extraction),
               generate_clicked, returned, submitted, manual)

---------------------------------------------------------------------------
(* Bounds and input sets                                                   *)

MaxFeatures == 2     \* longest manifest feature list
MaxCols == 2         \* most columns of a frame handed to _align_features
MaxTitleWords == 2   \* most vocabulary words in a generated title
MaxExperience == 2   \* most entries of an experience list
MaxSizeTokens == 3   \* most tokens in a generated company-size text
MaxRevenueTokens == 3 \* most tokens in a generated revenue text
MaxClasses == 3      \* most classes of a classifier
MaxTopN == 2         \* largest top_n of an explanation

\* sequences over S of length at most n
SeqsUpTo(S, n) == UNION {[1 .. m -> S] : m \in 0 .. n}

Injective(q) == \A i, j \in 1 .. Len(q) : q[i] = q[j] => i = j

\* the tokens of q concatenated
RECURSIVE Concat(_)
Concat(q) == IF Len(q) = 0 THEN "" ELSE q[1] \o Concat(Tail(q))

\* the words of q joined by single blanks
RECURSIVE Join(_)
Join(q) ==
    IF Len(q) = 0 THEN ""
    ELSE IF Len(q) = 1 THEN q[1]
    ELSE q[1] \o " " \o Join(Tail(q))

\* two names the feature row has and one it does not have
FeatureUniverse == {"is_vp", "size_numeric", "legacy_score"}

Manifests == {q \in SeqsUpTo(FeatureUniverse, MaxFeatures) : Len(q) > 0 /\ Injective(q)}

CellValues == {Num(3), Str("7"), Str("abc"), NoneV}

Frames ==
    {q \in SeqsUpTo([name : FeatureUniverse, val : CellValues], MaxCols) :
        \A i, j \in 1 .. Len(q) : q[i].name = q[j].name => i = j}

TitleWords == {"Chief", "Financial", "Finance", "Officer", "VP", "of", "Development",
               "Director", "Software", "Credit", "Team", "Lead", "V.P.", "Operations"}

FixedTitles == {"Chief Financial Officer", "Senior Software Developer",
                "VP of Development", "V.P. of Sales", "Chief Executive Officer",
                "Senior Vice President", "Assistant Vice President Lending",
                "Head of Risk and Compliance", "  Treasury Manager ",
                "Enablement Chairman", "CTO", "Growth Strategy Supervisor"}

Titles == FixedTitles \cup {Join(q) : q \in SeqsUpTo(TitleWords, MaxTitleWords)}

\* a well-formed profile whose current position has the given title
ProfileWithTitle(t) ==
    Dict([basic_info |-> Dict([headline |-> Str("Banker")]),
          experience |-> List(<< Dict([is_current |-> Bool(TRUE), title |-> Str(t)]) >>)])

TitleProfiles == {ProfileWithTitle(t) : t \in Titles}

BasicInfos == {Missing, NoneV, Str("n/a")}
              \cup {Dict([headline |-> h]) : h \in {NoneV, Str(""), Str("Banker")}}
              \cup {[k |-> "dict"]}

ExperienceEntries ==
    {Str("n/a")}
    \cup {Dict([is_current |-> c, title |-> t]) :
            c \in {Bool(TRUE), Bool(FALSE)}, t \in {Str("Director"), Str("")}}
    \cup {Dict([title |-> Str("Analyst")]), Dict([is_current |-> Bool(TRUE)])}

Experiences == {Missing, NoneV, Str("n/a")}
               \cup {List(q) : q \in SeqsUpTo(ExperienceEntries, MaxExperience)}

\* a profile dict from its three fields, absent keys left out
Profile(b, e, a) ==
    [key \in {"k"} \cup (IF b = Missing THEN {} ELSE {"basic_info"})
                   \cup (IF e = Missing THEN {} ELSE {"experience"})
                   \cup (IF a = Missing THEN {} ELSE {"activity_days"}) |->
        CASE key = "k" -> "dict"
          [] key = "basic_info" -> b
          [] key = "experience" -> e
          [] key = "activity_days" -> a]

ShapeProfiles ==
    {NoneV, EmptyDict}
    \cup {IF b = Missing /\ e = Missing THEN Dict([name |-> Str("Ann")])
          ELSE Profile(b, e, Missing) : b \in BasicInfos, e \in Experiences}

ActivityDays == {-5, 0, 7, 8, 14, 15, 30, 31, 60, 61, 90, 91, 120, 121, 180, 181, 400}

\* the timestamps a post can carry
Timestamps == {Missing, NoneV, Num(0), Str("abc"), Str("86400000"),
               Num(NowMs), Num(NowMs + DayMs), Num(NowMs - DayMs + 1),
               Num(NowMs - 3 * DayMs), Num(NowMs - 8 * DayMs - 5),
               Num(NowMs - 19 * DayMs)}

Post(ts) == Dict([text |-> Str("hello"), posted_at |-> Dict([timestamp |-> ts])])

PostLists == {<< >>, << Dict([text |-> Str("hello")]) >>}
             \cup {<< Post(ts) >> : ts \in Timestamps}
             \cup {<< Post(Num(NowMs - 3 * DayMs)), Post(Num(NowMs - 8 * DayMs - 5)) >>}

ActivityRaws == {NoneV, Str("abc"), Str("12"), Str("7.5"), Str("")}
                \cup {Num(n) : n \in ActivityDays}
                \cup {compute_activity_days_from_posts(posts) : posts \in PostLists}

ActivityProfiles ==
    {Profile(Dict([headline |-> Str("Banker")]), Missing, a) : a \in ActivityRaws}

SizeSamples == {"", "abc", "0", "1", "20", "50", "51", "200", "201", "350", "500", "501",
                "1000", "1001", "4999", "5000", "5,000", "5001", "10,000+",
                "201-500 employees", "5,001-10,000 employees", "51-200", "1+2",
                "-5+", "1 employee", "4000-6000", "1,001-5,000 employees"}

RevenueSamples == {"", "n/a", "0", "$5", "19.9", "20", "$49.99M", "50", "99", "100",
                   "$261.9 Million", "$499 million", "500", "$1 Billion",
                   "$1.3 Billion", "$128.9M", "$2.5B", "$5M before tax", "1,300.25",
                   ".5m", "0.0"}

IndustrySamples == {"", "Commercial Banking", "Consumer Lending", "Retail Banking",
                    "Fintech", "Credit Union", "Corporate Banking", "Insurance",
                    "Digital Bank", "Cooperative", "Personal Banking", "Consumer Goods"}

Manual(size, revenue, industry) ==
    Dict([company_name |-> Str("Acme Bank"), company_size |-> Str(size),
          annual_revenue |-> Str(revenue), industry |-> Str(industry)])

UserDatas ==
    {NoneV, EmptyDict, Manual("", "", ""),
     Dict([company_name |-> Str(""), company_size |-> Str(""),
           annual_revenue |-> Str(""), industry |-> Str("")]),
     Dict([company_size |-> NoneV, annual_revenue |-> NoneV, industry |-> NoneV])}
    \cup {Manual(z, "", "") : z \in SizeSamples}
    \cup {Manual("", r, "") : r \in RevenueSamples}
    \cup {Manual("", "", n) : n \in IndustrySamples}

\* the end-to-end scenario of the specification
ScenarioProfile == ProfileWithTitle("Chief Financial Officer")
ScenarioManual == Manual("5,001-10,000 employees", "$1 Billion", "Commercial Banking")

BuildInputs ==
    ((TitleProfiles \cup ShapeProfiles \cup ActivityProfiles) \X {EmptyDict})
    \cup ({NoneV, ScenarioProfile} \X UserDatas)
    \cup {<< ScenarioProfile, ScenarioManual >>}

BuilderManifests == {<< >>, << "size_numeric", "legacy_score", "is_vp" >>}

SizeTokens == {"1", "5", "0", ",", "-", "+", " employees", "abc", "."}

SizeTexts == SizeSamples \cup {Concat(q) : q \in SeqsUpTo(SizeTokens, MaxSizeTokens)}

RevenueTokens == {"$", "1", "5", ".", ",", " ", "M", "Billion", "million", "b", "x"}

RevenueTexts ==
    RevenueSamples \cup {Concat(q) : q \in SeqsUpTo(RevenueTokens, MaxRevenueTokens)}

\* the labels of the classes, in the order of their indices
LabelNames == << "COLD", "COOL", "WARM", "HOT" >>

Label(i) == IF i < Len(LabelNames) THEN LabelNames[i + 1] ELSE "L" \o IndexStr(i)

\* the reverse mapping of n classes
Mapping(n) ==
    [key \in {IndexStr(i) : i \in 0 .. (n - 1)} |->
        Label(CHOOSE i \in 0 .. (n - 1) : IndexStr(i) = key)]

Without(f, key) == [other \in DOMAIN f \ {key} |-> f[other]]

\* reverse mappings of a manifest: absent, empty, complete, with more labels
\* than the classifier has classes, with an unmapped index, with one label
\* given to two indices
ReverseMappings ==
    {Missing}
    \cup {[k |-> "map", v |-> Mapping(n)] : n \in 0 .. (MaxClasses + 1)}
    \cup {[k |-> "map", v |-> Without(Mapping(n), IndexStr(i))] :
             n \in 2 .. MaxClasses, i \in 0 .. 1}
    \cup {[k |-> "map", v |-> [Mapping(n) EXCEPT !["0"] = Label(n - 1)]] :
             n \in 2 .. MaxClasses}

\* feature lists of a manifest: absent, empty, of two and of three features
PredictorManifests ==
    {Missing, List(<< >>), List(<< "is_vp", "size_numeric" >>),
     List(<< "size_numeric", "is_vp", "legacy_score" >>)}

Metadata(fn, rm) ==
    Dict((IF fn.k = "missing" THEN EmptyMapping ELSE [feature_names |-> fn.v])
         @@ (IF rm.k = "missing" THEN EmptyMapping ELSE [reverse_mapping |-> rm.v]))

MetadataFiles ==
    {Missing, Str("not json")}
    \cup {Metadata(fn, rm) : fn \in PredictorManifests, rm \in ReverseMappings}

\* feature_importances_ in hundredths, or no such attribute
ImportanceVectors ==
    {Missing, List(<< 75, 25 >>), List(<< 50, 50 >>), List(<< 0, 100 >>),
     List(<< 50, 25, 25 >>)}

Classifiers == [classes : 1 .. MaxClasses, importances : ImportanceVectors]

ModelFiles == {Missing} \cup Classifiers

RECURSIVE Sum(_)
Sum(q) == IF Len(q) = 0 THEN 0 ELSE q[1] + Sum(Tail(q))

\* the rows predict_proba(X)[0] can return for n classes: probabilities in
\* steps of a quarter that sum to 1
Distributions(n) ==
    {q \in [1 .. n -> {i * (DecScale \div 4) : i \in 0 .. 4}] : Sum(q) = DecScale}

ProbaOutcomes(m) == {ProbaRaised} \cup {ProbaReturned(q) : q \in Distributions(m.classes)}

ExplainValues == {Num(0), Num(3), Num(-5)}

ExplainFrames ==
    {<< >>}
    \cup {<< [name |-> n, val |-> a] >> : n \in {"is_vp", "legacy_score"}, a \in ExplainValues}
    \cup {<< [name |-> "is_vp", val |-> a], [name |-> "size_numeric", val |-> b] >> :
             a, b \in ExplainValues}

PredictInputs ==
    {NoneV, NoRows}
    \cup {Frame(f) : f \in {<< >>, << [name |-> "is_vp", val |-> Num(3)] >>,
                            << [name |-> "is_vp", val |-> Num(0)],
                               [name |-> "size_numeric", val |-> Num(3)] >>,
                            << [name |-> "legacy_score", val |-> Str("abc")] >>}}

---------------------------------------------------------------------------
(* Specifications: Init draws the arguments of one call, the action        *)
(* applies the operation                                                   *)

InitAlign ==
    /\ PredictorIdle /\ AppIdle /\ ExtractorIdle
    /\ pc = "start" /\ op = "align"
    /\ feature_names \in Manifests
    /\ X \in Frames
    /\ X_aligned = Null
    /\ linkedin_data = Null /\ user_data = Null /\ built = Null
    /\ size_str = "" /\ size_out = 0 /\ revenue_str = "" /\ revenue_out = 0

InitBuildAligned ==
    /\ PredictorIdle /\ AppIdle /\ ExtractorIdle
    /\ pc = "start" /\ op = "build"
    /\ feature_names \in Manifests
    /\ X = Null /\ X_aligned = Null
    /\ \E in \in {<< NoneV, EmptyDict >>, << ScenarioProfile, ScenarioManual >>} :
          linkedin_data = in[1] /\ user_data = in[2]
    /\ built = Null
    /\ size_str = "" /\ size_out = 0 /\ revenue_str = "" /\ revenue_out = 0

InitBuild ==
    /\ PredictorIdle /\ AppIdle /\ ExtractorIdle
    /\ pc = "start" /\ op = "build"
    /\ feature_names \in BuilderManifests
    /\ X = Null /\ X_aligned = Null
    /\ \E in \in BuildInputs : linkedin_data = in[1] /\ user_data = in[2]
    /\ built = Null
    /\ size_str = "" /\ size_out = 0 /\ revenue_str = "" /\ revenue_out = 0

InitSize ==
    /\ PredictorIdle /\ AppIdle /\ ExtractorIdle
    /\ pc = "start" /\ op = "size"
    /\ feature_names = << >>
    /\ X = Null /\ X_aligned = Null
    /\ linkedin_data = Null /\ user_data = Null /\ built = Null
    /\ size_str \in SizeTexts /\ size_out = 0
    /\ revenue_str = "" /\ revenue_out = 0

InitRevenue ==
    /\ PredictorIdle /\ AppIdle /\ ExtractorIdle
    /\ pc = "start" /\ op = "revenue"
    /\ feature_names = << >>
    /\ X = Null /\ X_aligned = Null
    /\ linkedin_data = Null /\ user_data = Null /\ built = Null
    /\ size_str = "" /\ size_out = 0
    /\ revenue_str \in RevenueTexts /\ revenue_out = 0

\* X_aligned = self._align_features(X)
AlignFeatures ==
    /\ UNCHANGED << predictor_vars, shell_vars >>
    /\ pc = "start" /\ op = "align"
    /\ X_aligned' = _align_features(X, feature_names)
    /\ pc' = "done"
    /\ UNCHANGED << op, feature_names, X, linkedin_data, user_data, built,
                    size_str, size_out, revenue_str, revenue_out >>

\* features, debug_info = self.feature_builder.build_features(...)
BuildFeatures ==
    /\ UNCHANGED << predictor_vars, shell_vars >>
    /\ pc = "start" /\ op = "build"
    /\ built' = build_features(linkedin_data, user_data, feature_names)
    /\ pc' = "done"
    /\ UNCHANGED << op, feature_names, X, X_aligned, linkedin_data, user_data,
                    size_str, size_out, revenue_str, revenue_out >>

\* size_numeric = self._parse_size_to_number(company_size)
ParseSize ==
    /\ UNCHANGED << predictor_vars, shell_vars >>
    /\ pc = "start" /\ op = "size"
    /\ size_out' = _parse_size_to_number(size_str)
    /\ pc' = "done"
    /\ UNCHANGED << op, feature_names, X, X_aligned, linkedin_data, user_data, built,
                    size_str, revenue_str, revenue_out >>

\* revenue_millions = self._parse_revenue_millions(annual_revenue)
ParseRevenue ==
    /\ UNCHANGED << predictor_vars, shell_vars >>
    /\ pc = "start" /\ op = "revenue"
    /\ revenue_out' = _parse_revenue_millions(revenue_str)
    /\ pc' = "done"
    /\ UNCHANGED << op, feature_names, X, X_aligned, linkedin_data, user_data, built,
                    size_str, size_out, revenue_str >>

\* before DynamicLeadScoringApp constructs ModelPredictor()
InitPredictor ==
    /\ AppIdle /\ ExtractorIdle
    /\ pc = "start" /\ op \in {"predict", "explain"}
    /\ model_pkl \in ModelFiles /\ metadata_json \in MetadataFiles
    /\ model = Null /\ metadata = Null
    /\ feature_names = << >> /\ reverse_mapping = Null
    /\ X = Null /\ X_aligned = Null
    /\ probs = Null /\ prediction = Null /\ top_n = 0 /\ explanation = Null
    /\ linkedin_data = Null /\ user_data = Null /\ built = Null
    /\ size_str = "" /\ size_out = 0 /\ revenue_str = "" /\ revenue_out = 0

\* self.model_predictor = ModelPredictor()
LoadAll ==
    /\ UNCHANGED shell_vars
    /\ pc = "start" /\ op \in {"predict", "explain"}
    /\ LET loaded == _load_all(model_pkl, metadata_json)
       IN  /\ model' = loaded.model
           /\ metadata' = loaded.metadata
           /\ feature_names' = loaded.feature_names
           /\ reverse_mapping' = loaded.reverse_mapping
           /\ pc' = IF loaded.raised THEN "failed" ELSE "ready"
    /\ UNCHANGED << op, X, X_aligned, builder_vars, model_pkl, metadata_json,
                    probs, prediction, top_n, explanation >>

\* prediction = self.model_predictor.predict(final_features)
Predict ==
    /\ UNCHANGED shell_vars
    /\ pc = "ready" /\ op = "predict"
    /\ \E x \in PredictInputs, out \in ProbaOutcomes(model) :
          \E reasons \in (IF x.k = "frame"
                          THEN explain_prediction(model, feature_names,
                                   _align_features(x.cols, feature_names), DefaultTopN)
                          ELSE {Raised}) :
             LET call == predict(model, feature_names, reverse_mapping, x, out, reasons)
             IN  /\ X' = x
                 /\ X_aligned' = call.aligned
                 /\ probs' = call.probs
                 /\ prediction' = call.ret
    /\ pc' = "done"
    /\ UNCHANGED << op, feature_names, builder_vars, model_pkl, metadata_json,
                    model, metadata, reverse_mapping, top_n, explanation >>

\* explanation_df = self.explain_prediction(X_row, top_n)
ExplainPrediction ==
    /\ UNCHANGED shell_vars
    /\ pc = "ready" /\ op = "explain"
    /\ \E x \in ExplainFrames, n \in 0 .. MaxTopN :
          \E e \in explain_prediction(model, feature_names, x, n) :
             /\ X' = Frame(x)
             /\ X_aligned' = _align_features(x, feature_names)
             /\ top_n' = n
             /\ explanation' = e
    /\ pc' = "done"
    /\ UNCHANGED << op, feature_names, builder_vars, model_pkl, metadata_json,
                    model, metadata, reverse_mapping, probs, prediction >>

NextAlign == AlignFeatures \/ BuildFeatures
SpecAlign == (InitAlign \/ InitBuildAligned) /\ [][NextAlign]_vars

NextBuild == BuildFeatures
SpecBuild == InitBuild /\ [][NextBuild]_vars

NextSize == ParseSize
SpecSize == InitSize /\ [][NextSize]_vars

NextRevenue == ParseRevenue
SpecRevenue == InitRevenue /\ [][NextRevenue]_vars

NextPredictor == LoadAll \/ Predict \/ ExplainPrediction
SpecPredictor == InitPredictor /\ [][NextPredictor]_vars

\* the posts request of extract_recent_posts: lists of posts with equal,
\* missing, null and unparsable timestamps, bodies that are no list, statuses
\* other than 200 and 201, and a request that raises
MaxPosts == 3        \* most posts in a response
MaxLimit == 3        \* largest limit of extract_recent_posts

PostOf(urn, ts) == Dict([urn |-> Str(urn), posted_at |-> Dict([timestamp |-> ts])])

ResponsePosts ==
    {PostOf("a", Num(300)), PostOf("b", Num(300)), PostOf("c", Num(100)),
     PostOf("d", Str("200")), PostOf("e", Str("abc")), PostOf("f", NoneV),
     Dict([urn |-> Str("g")]), Dict([urn |-> Str("h"), posted_at |-> NoneV]),
     Str("advert")}

PostsResponses ==
    {RequestRaised}
    \cup {Response(c, List(<< PostOf("a", Num(300)) >>)) : c \in {404, 500}}
    \cup {Response(200, b) : b \in {NotJson, NoneV, Dict([error |-> Str("quota")])}}
    \cup {Response(c, List(q)) : c \in {200, 201}, q \in SeqsUpTo(ResponsePosts, MaxPosts)}

InitPosts ==
    /\ PredictorIdle /\ AppIdle /\ WaitIdle /\ BuilderIdle
    /\ pc = "start" /\ op = "posts"
    /\ feature_names = << >> /\ X = Null /\ X_aligned = Null
    /\ resp \in PostsResponses /\ posts_limit \in 0 .. MaxLimit
    /\ recent_posts = Null

\* posts = self.extract_recent_posts(linkedin_url, limit)
ExtractRecentPosts ==
    /\ pc = "start" /\ op = "posts"
    /\ recent_posts' = List(extract_recent_posts(resp, posts_limit))
    /\ pc' = "done"
    /\ UNCHANGED << op, feature_names, X, X_aligned, builder_vars, predictor_vars,
                    app_vars, clock, elapsed, run_timeout, run_status, wait_ok,
                    profile_data, resp, posts_limit >>

NextPosts == ExtractRecentPosts
SpecPosts == InitPosts /\ [][NextPosts]_vars

\* _wait_for_run inside extract_profile: the statuses the provider reports
\* (a lookup that fails reports UNKNOWN), the seconds a lookup takes, and
\* the seconds a sleep overruns
MaxJitter == 1       \* most seconds a sleep overruns

RunStatuses == {"READY", "RUNNING", "ABORTING", "UNKNOWN",
                "SUCCEEDED", "FAILED", "ABORTED", "TIMED_OUT"}

Latencies == 0 .. StatusRequestTimeout

StartedRun == Dict([id |-> Str("run1"), defaultDatasetId |-> Str("data1")])

WaitProfileUrl == "ann"

DatasetItems ==
    {NoneV, List(<< >>), List(<< ProfileWithTitle("Vice President") >>),
     ProfileWithTitle("Director")}

\* profile_data = self._run_profile_actor(username), at the call of
\* _wait_for_run: start = time.time()
InitWait ==
    /\ PredictorIdle /\ AppIdle /\ PostsIdle /\ BuilderIdle
    /\ pc = "test" /\ op = "wait"
    /\ feature_names = << >> /\ X = Null /\ X_aligned = Null
    /\ clock = 0 /\ elapsed = 0 /\ run_timeout = PollTimeout
    /\ run_status = "" /\ wait_ok = Null /\ profile_data = Null

\* while time.time() - start < timeout: ... return False
LoopCondition ==
    /\ pc = "test" /\ op = "wait"
    /\ elapsed' = clock
    /\ IF LoopContinues(clock, run_timeout)
       THEN pc' = "poll" /\ UNCHANGED wait_ok
       ELSE pc' = "returned" /\ wait_ok' = Bool(FALSE)
    /\ UNCHANGED << op, feature_names, X, X_aligned, builder_vars, predictor_vars,
                    app_vars, clock, run_timeout, run_status, profile_data,
                    resp, posts_limit, recent_posts >>

\* status = self._get_run_status(run_id) and the two returns that follow it
GetRunStatus ==
    /\ pc = "poll" /\ op = "wait"
    /\ \E status \in RunStatuses, latency \in Latencies :
          /\ run_status' = status
          /\ clock' = clock + latency
          /\ IF status = "SUCCEEDED"
             THEN pc' = "returned" /\ wait_ok' = Bool(TRUE)
             ELSE IF GivesUp(status)
                  THEN pc' = "returned" /\ wait_ok' = Bool(FALSE)
                  ELSE pc' = "sleep" /\ UNCHANGED wait_ok
    /\ UNCHANGED << op, feature_names, X, X_aligned, builder_vars, predictor_vars,
                    app_vars, elapsed, run_timeout, profile_data,
                    resp, posts_limit, recent_posts >>

\* time.sleep(4)
Sleep ==
    /\ pc = "sleep" /\ op = "wait"
    /\ \E jitter \in 0 .. MaxJitter : clock' = clock + SleepSeconds + jitter
    /\ pc' = "test"
    /\ UNCHANGED << op, feature_names, X, X_aligned, builder_vars, predictor_vars,
                    app_vars, elapsed, run_timeout, run_status, wait_ok, profile_data,
                    resp, posts_limit, recent_posts >>

\* the rest of _run_profile_actor and of extract_profile once _wait_for_run
\* has returned
ExtractProfileReturns ==
    /\ pc = "returned" /\ op = "wait"
    /\ \E items \in DatasetItems :
          profile_data' = extract_profile(WaitProfileUrl,
                              _run_profile_actor(StartedRun, wait_ok.v, items),
                              Response(200, List(<< >>)))
    /\ pc' = "done"
    /\ UNCHANGED << op, feature_names, X, X_aligned, builder_vars, predictor_vars,
                    app_vars, clock, elapsed, run_timeout, run_status, wait_ok,
                    resp, posts_limit, recent_posts >>

NextWait == LoopCondition \/ GetRunStatus \/ Sleep \/ ExtractProfileReturns
SpecWait == InitWait /\ [][NextWait]_vars

\* the interpreter runs the loop on: no step of the call waits forever
SpecWaitFair == SpecWait /\ WF_vars(NextWait)

\* the application: the URLs a user types, what the provider returns for a
\* username, the manual company forms, and the artefacts the predictor and
\* the feature builder load
AppUrls == {"", "ann", " ann", "bob", "a b", "linkedin.com/in/bob/"}

TitleOf(username) == IF username = "ann" THEN "Vice President" ELSE "Analyst"

\* the profiles of a username: complete, with a null basic_info, with a null
\* location
ProviderProfiles(username) ==
    {Dict([public_identifier |-> Str(username),
           basic_info |-> Dict([fullname |-> Str(username), headline |-> Str("Banker")]),
           experience |-> List(<< Dict([is_current |-> Bool(TRUE),
                                        title |-> Str(TitleOf(username))]) >>)]),
     Dict([public_identifier |-> Str(username), basic_info |-> NoneV]),
     Dict([public_identifier |-> Str(username),
           basic_info |-> Dict([fullname |-> Str(username), location |-> NoneV])])}

\* what extract_profile can do for a URL: the actor fails or returns a
\* profile of the username, the posts request fails or returns a post
ExtractOutcomes(linkedin_url) ==
    LET username == _extract_username(linkedin_url)
    IN  {extract_profile(linkedin_url, actor_data, response) :
            actor_data \in {NoneV} \cup (IF username.k = "str"
                                         THEN ProviderProfiles(username.v) ELSE {}),
            response \in {Response(500, NoneV),
                          Response(200, List(<< PostOf("p", Num(NowMs - 3 * DayMs)) >>))}}

ManualForms == {ScenarioManual, Manual("51-200", "", "")}

AppModelFile == [classes |-> 2, importances |-> List(<< 75, 25 >>)]

AppMetadataFile ==
    Metadata(List(<< "is_vp", "size_numeric" >>), [k |-> "map", v |-> Mapping(2)])

\* app = DynamicLeadScoringApp() with both artefacts present: the session
\* defaults, a loaded predictor and the builder's feature names
InitApp ==
    /\ WaitIdle /\ PostsIdle /\ BuilderIdle
    /\ pc = "started" /\ op = "app"
    /\ model_pkl = AppModelFile /\ metadata_json = AppMetadataFile
    /\ LET loaded == _load_all(AppModelFile, AppMetadataFile)
       IN  /\ model = loaded.model /\ metadata = loaded.metadata
           /\ feature_names = loaded.feature_names
           /\ reverse_mapping = loaded.reverse_mapping
    /\ X = Null /\ X_aligned = Null
    /\ probs = Null /\ prediction = Null /\ top_n = 0 /\ explanation = Null
    /\ session_state = SessionDefaults /\ uncaught = FALSE
    /\ screen = [error |-> "", results |-> NoResults]

\* the extraction of a script run in which Extract Data was not clicked
NotClicked == [k |-> "notcalled"]

\* the state a finished script run leaves
Ran(event, ran) ==
    /\ session_state' = ran.ss
    /\ uncaught' = ran.uncaught
    /\ screen' = ran.screen
    /\ pc' = event
    /\ UNCHANGED << op, feature_names, builder_vars, extractor_vars,
                    model_pkl, metadata_json, model, metadata, reverse_mapping,
                    top_n, explanation >>

\* the script run that an event of the page starts
Rerun(event, ss, extract_clicked, extraction, generate_clicked, returned, submitted, manual) ==
    Ran(event, run(ss, extract_clicked, extraction, generate_clicked, returned,
                   submitted, manual))

\* a script run without a click on Generate Lead Score calls predict with
\* nothing and gets nothing back
NoPredictCall == X' = Null /\ X_aligned' = Null /\ probs' = Null /\ prediction' = Null

\* the user types a URL into the text input
EnterUrl ==
    /\ op = "app"
    /\ \E url \in AppUrls :
          /\ url # session_state.linkedin_url
          /\ Rerun("entered", [session_state EXCEPT !.linkedin_url = url],
                   FALSE, NotClicked, FALSE, NoneV, FALSE, EmptyDict)
    /\ NoPredictCall

\* the user clicks Extract Data (disabled while the text input is empty)
ClickExtract ==
    /\ op = "app"
    /\ session_state.linkedin_url # ""
    /\ \E profile \in ExtractOutcomes(session_state.linkedin_url) :
          \E b \in {IF profile = Raised THEN Raised
                    ELSE build_features(profile, session_state.user_input_data,
                                        feature_names)} :
             Rerun("extracted", session_state, TRUE,
                   _extract_all_data(UrlTracked(session_state), profile, b),
                   FALSE, NoneV, FALSE, EmptyDict)
    /\ NoPredictCall

\* the user clicks Generate Lead Score (on the page once ready_for_scoring)
ClickGenerate ==
    /\ op = "app"
    /\ session_state.ready_for_scoring
    /\ \E out \in ProbaOutcomes(model) :
          \E reasons \in explain_prediction(model, feature_names,
                             _align_features(session_state.final_features.cols,
                                             feature_names), DefaultTopN) :
             \E call \in {predict(model, feature_names, reverse_mapping,
                                  session_state.final_features, out, reasons)} :
                /\ X' = session_state.final_features
                /\ X_aligned' = call.aligned
                /\ probs' = call.probs
                /\ prediction' = call.ret
                /\ Rerun("generated", session_state, FALSE, NotClicked, TRUE,
                         call.ret, FALSE, EmptyDict)

\* the user submits the manual form of the sidebar (on the page unless the
\* last script run ended before the sidebar)
SaveManual ==
    /\ op = "app"
    /\ ~uncaught
    /\ \E manual \in ManualForms :
          /\ manual # session_state.user_input_data
          /\ Rerun("saved", session_state, FALSE, NotClicked, FALSE, NoneV, TRUE, manual)
    /\ NoPredictCall

NextApp == EnterUrl \/ ClickExtract \/ ClickGenerate \/ SaveManual
SpecApp == InitApp /\ [][NextApp]_vars

Init ==
    InitAlign \/ InitBuildAligned \/ InitBuild \/ InitSize \/ InitRevenue
    \/ InitPredictor \/ InitPosts \/ InitWait \/ InitApp
Next ==
    AlignFeatures \/ BuildFeatures \/ ParseSize \/ ParseRevenue
    \/ LoadAll \/ Predict \/ ExplainPrediction
    \/ ExtractRecentPosts
    \/ LoopCondition \/ GetRunStatus \/ Sleep \/ ExtractProfileReturns
    \/ EnterUrl \/ ClickExtract \/ ClickGenerate \/ SaveManual
Spec == Init /\ [][Next]_vars

---------------------------------------------------------------------------
(* Properties                                                              *)

Done(o) == pc = "done" /\ op = o

\* the cell of column name of frame df, Missing if df has no such column
CellOf(df, name) ==
    IF name \in ColumnNames(df) THEN df[ColumnOf(df, name)].val ELSE Missing

IsNumeric(cell) == cell.k \in {"num", "milli"}

\* out has exactly the columns names, in that order
SchemaComplete(out, names) ==
    /\ Len(out) = Len(names)
    /\ \A i \in 1 .. Len(names) : out[i].name = names[i]

\* C1: schema completeness. The frame returned by _align_features, and the
\* frame returned by build_features under a non-empty manifest, has exactly
\* len(feature_names) columns in the manifest's order; in the aligned frame
\* every cell is numeric, a column absent from the input is 0, a numeric input
\* cell is kept and None or non-numeric text becomes 0; in the built frame a
\* manifest column the row lacks is 0 and the others carry the row's value.
C1_SchemaCompleteness ==
    /\ Done("align") =>
          /\ SchemaComplete(X_aligned, feature_names)
          /\ \A i \in 1 .. Len(X_aligned) :
                LET in == CellOf(X, feature_names[i])
                    out == X_aligned[i].val
                IN  /\ IsNumeric(out)
                    /\ in.k = "num" => out = in
                    /\ in.k \in {"missing", "none"} => out = Num(0)
                    /\ in.k = "str" /\ ~ParseFloat(in.v).ok => out = Num(0)
    /\ (Done("build") /\ ~built.raised /\ Len(feature_names) > 0) =>
          /\ SchemaComplete(built.features_df, feature_names)
          /\ \A i \in 1 .. Len(feature_names) :
                built.features_df[i].val =
                    IF feature_names[i] \in DOMAIN built.row
                    THEN Num(built.row[feature_names[i]])
                    ELSE Num(0)

\* C1 witness: an aligned frame whose input had an extra column, lacked a
\* manifest column and held a non-numeric cell in a manifest column
C1_Witness ==
    /\ Done("align")
    /\ \E i \in 1 .. Len(X) : \A j \in 1 .. Len(feature_names) : X[i].name # feature_names[j]
    /\ \E j \in 1 .. Len(feature_names) : CellOf(X, feature_names[j]) = Missing
    /\ \E j \in 1 .. Len(feature_names) : CellOf(X, feature_names[j]) = Str("abc")

Built == Done("build") /\ ~built.raised

\* C2 (as claimed): the end-to-end scenario. A current position "Chief
\* Financial Officer", size "5,001-10,000 employees", revenue "$1 Billion",
\* industry "Commercial Banking" and no activity_days give is_c_level = 1,
\* in_finance = 1, size_numeric = 7500, size_5000_plus = 1, revenue_millions =
\* 1000.0, revenue_category = 4, is_commercial_banking = 1, activity_days = 30.
C2_EndToEndScenario ==
    (Done("build") /\ linkedin_data = ScenarioProfile /\ user_data = ScenarioManual) =>
        /\ ~built.raised
        /\ built.row.is_c_level = 1
        /\ built.row.in_finance = 1
        /\ built.row.size_numeric = 7500
        /\ built.row.size_5000_plus = 1
        /\ built.row.revenue_millions = 1000 * DecScale
        /\ built.row.revenue_category = 4
        /\ built.row.is_commercial_banking = 1
        /\ built.row.activity_days = 30 * DecScale

\* the keyword patterns of the seniority and department flags
KeywordFlags ==
    [is_ceo |-> PatCeo, is_c_level |-> PatCLevel, is_evp_svp |-> PatEvpSvp,
     is_vp |-> PatVp, is_director |-> PatDirector, is_manager |-> PatManager,
     is_officer |-> PatOfficer, in_lending |-> PatLending, in_tech |-> PatTech,
     in_operations |-> PatOperations, in_risk |-> PatRisk, in_finance |-> PatFinance,
     in_strategy |-> PatStrategy]

\* the keywords of a pattern, each required to begin at a word boundary
AtWordStart(alts) == {[lit |-> a.lit, lb |-> TRUE, rb |-> a.rb] : a \in alts}

\* C3 (as claimed): keyword matching has no substring collisions. A seniority
\* or department flag is 1 only if one of its keywords occurs in the
\* lower-cased title beginning at a word boundary, never only as letters
\* inside a longer word.
C3_NoSubstringCollisions ==
    Built =>
        \A flag \in DOMAIN KeywordFlags :
            built.row[flag] = 1 =>
                Search(AtWordStart(KeywordFlags[flag]), _safe_lower(built.title))

\* a profile made of mappings only, every position with a non-empty title
WellFormedProfile(ld) ==
    /\ ld.k = "dict"
    /\ Field(ld, "basic_info").k \in {"missing", "dict"}
    /\ Field(ld, "experience").k \in {"missing", "list"}
    /\ Field(ld, "experience").k = "list" =>
          \A i \in 1 .. Len(ld.experience.v) :
              /\ ld.experience.v[i].k = "dict"
              /\ Truthy(Field(ld.experience.v[i], "title"))

\* the title the fallback order of the specification selects
FallbackTitle(ld) ==
    LET exp == IF Field(ld, "experience").k = "list" THEN ld.experience.v ELSE << >>
        current == {i \in 1 .. Len(exp) : Truthy(Field(exp[i], "is_current"))}
        basic == Field(ld, "basic_info")
    IN  IF current # {} THEN exp[CHOOSE i \in current : \A j \in current : i <= j].title
        ELSE IF Len(exp) > 0 THEN exp[1].title
        ELSE IF basic.k = "dict" THEN OrEmpty(Field(basic, "headline"))
        ELSE Str("")

\* C4 (as claimed): title extraction follows the fallback order. The title is
\* that of the position flagged is_current; with no position flagged, that of
\* the first position; with no experience, the headline; otherwise "".
C4_TitleFallbackOrder ==
    (Done("build") /\ WellFormedProfile(linkedin_data)) =>
        /\ ~built.raised
        /\ built.title = FallbackTitle(linkedin_data)

\* the row keys that hold 0/1 flags
BooleanFlags ==
    {"is_ceo", "is_c_level", "is_evp_svp", "is_vp", "is_director", "is_manager",
     "is_officer", "in_lending", "in_tech", "in_operations", "in_risk", "in_finance",
     "in_strategy", "size_51_200", "size_201_500", "size_501_1000", "size_1001_5000",
     "size_5000_plus", "is_active_week", "is_active_month", "is_consumer_lending",
     "is_commercial_banking", "is_retail_banking", "is_fintech", "is_credit_union",
     "activity_missing"}

\* no profile, and no manual field with any text
AbsentInput ==
    /\ linkedin_data = NoneV
    /\ \A key \in {"company_name", "company_size", "annual_revenue", "industry"} :
          ManualField(IF user_data.k = "none" THEN EmptyDict ELSE user_data, key) = ""

\* C5 (as claimed): build_features(None, {}) does not raise and returns a row
\* in which every 0/1 flag is 0, size_numeric is 0, revenue_millions is 0.0 and
\* activity_days is the fallback 30.
C5_AllFlagsZeroOnAbsentInput ==
    (Done("build") /\ AbsentInput) =>
        /\ ~built.raised
        /\ \A flag \in BooleanFlags : built.row[flag] = 0
        /\ built.row.size_numeric = 0
        /\ built.row.revenue_millions = 0
        /\ built.row.activity_days = 30 * DecScale

\* C5 (amended): build_features(None, {}) does not raise and returns a row in
\* which is_active_month and activity_missing are 1 (the fallback 30 is within
\* the month and stands for a missing value), every other 0/1 flag is 0,
\* size_numeric is 0, revenue_millions is 0.0 and activity_days is 30.
C5_TotalOnAbsentInput ==
    (Done("build") /\ AbsentInput) =>
        /\ ~built.raised
        /\ \A flag \in BooleanFlags \ {"is_active_month", "activity_missing"} :
              built.row[flag] = 0
        /\ built.row.is_active_month = 1
        /\ built.row.activity_missing = 1
        /\ built.row.size_numeric = 0
        /\ built.row.revenue_millions = 0
        /\ built.row.activity_days = 30 * DecScale

\* C5 witness: the deriver has returned for a null profile and an empty
\* manual-field dictionary
C5_Witness ==
    Built /\ linkedin_data = NoneV /\ user_data = EmptyDict
          /\ built.row.activity_days = 30 * DecScale

\* C6 (as claimed): build_features never raises, whatever the profile record
\* (null basic_info, experience that is not a list, entries that are not
\* mappings, non-numeric activity_days) and the manual fields.
C6_NeverRaises == Done("build") => ~built.raised

\* C7 (as claimed): the size buckets are mutually exclusive. At most one of
\* size_51_200, size_201_500, size_501_1000, size_1001_5000, size_5000_plus is 1.
C7_SizeBucketsExclusive ==
    Built =>
        built.row.size_51_200 + built.row.size_201_500 + built.row.size_501_1000
            + built.row.size_1001_5000 + built.row.size_5000_plus <= 1

\* C8 (as claimed): Size_Score is 0 exactly when size_numeric <= 0, and every
\* size_numeric above 1000 receives the same top Size_Score.
C8_SizeScoreAsClaimed ==
    Built =>
        /\ built.row.Size_Score = 0 <=> built.row.size_numeric <= 0
        /\ built.row.size_numeric > 1000 => built.row.Size_Score = 5

\* C8 (amended): Size_Score is 0 exactly when size_numeric <= 50, it increases
\* by one at each of 51, 201, 501, 1001 and 5000, and every size_numeric of
\* 5000 or more receives the same top Size_Score, 5.
C8_SizeScoreBuckets ==
    Built =>
        LET n == built.row.size_numeric
            score == built.row.Size_Score
        IN  /\ score = 0 <=> n <= 50
            /\ score = 1 <=> (51 <= n /\ n <= 200)
            /\ score = 2 <=> (201 <= n /\ n <= 500)
            /\ score = 3 <=> (501 <= n /\ n <= 1000)
            /\ score = 4 <=> (1001 <= n /\ n <= 4999)
            /\ score = 5 <=> n >= 5000

\* C8 witness: a company of exactly 5000 employees has been scored
C8_Witness == Built /\ built.row.size_numeric = 5000 /\ built.row.Size_Score = 5

\* an unsigned number, thousands separators allowed
UnsignedNumber(t) ==
    LET u == Strip(Replace(t, ",", ""))
    IN  u # "" /\ Ch(u, 1) \notin {"+", "-"} /\ ParseFloat(u).ok

NumberOf(t) == ParseFloat(Replace(t, ",", "")).val

\* t without a trailing "employees" or "employee"
WithoutSuffix(t) ==
    LET n == Len(t)
    IN  IF n >= 9 /\ SubSeq(t, n - 8, n) = "employees" THEN Strip(SubSeq(t, 1, n - 9))
        ELSE IF n >= 8 /\ SubSeq(t, n - 7, n) = "employee" THEN Strip(SubSeq(t, 1, n - 8))
        ELSE t

\* the size the specification assigns to a text: the mean of "A-B", the N of
\* "N+", a bare number itself, and 0 for every other text
ClaimedSize(text) ==
    LET t == WithoutSuffix(Strip(Lower(text)))
        p == FirstIndex(t, "-")
        a == Strip(SubSeq(t, 1, p - 1))
        b == Strip(Drop(t, p))
        n == Strip(SubSeq(t, 1, Len(t) - 1))
    IN  IF p > 0 /\ UnsignedNumber(a) /\ UnsignedNumber(b)
        THEN TruncDiv(NumberOf(a) + NumberOf(b), 2 * DecScale)
        ELSE IF Len(t) > 0 /\ Ch(t, Len(t)) = "+" /\ UnsignedNumber(n)
        THEN IntOf(NumberOf(n))
        ELSE IF UnsignedNumber(t) THEN IntOf(NumberOf(t))
        ELSE 0

\* C9 (as claimed): company size parsing. "A-B employees" or "A-B" gives the
\* mean of A and B as an integer, "N+" gives N, a bare number gives that
\* number, and every other text (empty, non-numeric, malformed) gives 0.
C9_SizeParsingAsClaimed == Done("size") => size_out = ClaimedSize(size_str)

\* the unit w stands in the lower-cased text l as a word of its own or
\* directly after the number, not as letters of a longer word
UnitAt(l, w) ==
    \E i \in 1 .. (Len(l) - Len(w) + 1) :
        /\ SubSeq(l, i, i + Len(w) - 1) = w
        /\ i = 1 \/ Ch(l, i - 1) \notin LowerLetters
        /\ i + Len(w) > Len(l) \/ Ch(l, i + Len(w)) \notin LowerLetters

BillionUnit(text) == \E w \in {"b", "bn", "billion"} : UnitAt(Lower(text), w)

MillionUnit(text) == \E w \in {"m", "mm", "mn", "million"} : UnitAt(Lower(text), w)

\* the first decimal number of the text, in hundredths
ClaimedNumber(text) ==
    LET match == FirstNumber(Replace(Replace(text, ",", ""), "$", ""))
    IN  [found |-> match.found,
         val |-> IF match.found THEN ParseFloat(match.text).val ELSE 0]

\* C10 (as claimed): revenue parsing. The result is the number x 1000 when,
\* and only when, the text carries a billion unit word or letter, the number
\* unchanged when it carries a million unit or no unit, and 0.0 when the text
\* holds no number.
C10_RevenueParsingAsClaimed ==
    Done("revenue") =>
        LET n == ClaimedNumber(revenue_str)
        IN  /\ ~n.found => revenue_out = 0
            /\ (n.found /\ BillionUnit(revenue_str) /\ ~MillionUnit(revenue_str)) =>
                  revenue_out = n.val * 1000
            /\ (n.found /\ ~BillionUnit(revenue_str)) => revenue_out = n.val


\* the claimed bucket index of a revenue in millions (hundredths)
RevenueBucket(m) == Cardinality({t \in {20, 50, 100, 500} : m >= t * DecScale})

\* the revenues in millions the manual field can carry
RevenueValues == {_parse_revenue_millions(r) : r \in RevenueSamples}

\* C11 (as claimed): Revenue_Score corresponds to revenue_category.
\* revenue_category is the bucket index over < 20, < 50, < 100, < 500, >= 500;
\* any other revenue with the same revenue_category as the built row gets the
\* same Revenue_Score, and one with a higher category a higher Revenue_Score.
C11_ScoreFollowsCategory ==
    Built =>
        /\ built.row.revenue_category = RevenueBucket(built.row.revenue_millions)
        /\ \A m \in RevenueValues :
              /\ _get_revenue_category(m) = built.row.revenue_category
                    => Revenue_Score(m) = built.row.Revenue_Score
              /\ _get_revenue_category(m) > built.row.revenue_category
                    => Revenue_Score(m) > built.row.Revenue_Score

\* C11 (amended): revenue_category is the bucket index over < 20, < 50, < 100,
\* < 500, >= 500; Revenue_Score is revenue_category + 1 for every positive
\* revenue and 0 for the revenue 0, so two positive revenues of the same
\* category get the same score and a higher category gets a higher score.
C11_RevenueScoreBuckets ==
    Built =>
        LET rev == built.row.revenue_millions
            cat == built.row.revenue_category
            score == built.row.Revenue_Score
        IN  /\ cat = RevenueBucket(rev)
            /\ score = IF rev > 0 THEN cat + 1 ELSE 0
            /\ \A m \in RevenueValues :
                  /\ (_get_revenue_category(m) = cat /\ m > 0 /\ rev > 0)
                        => Revenue_Score(m) = score
                  /\ _get_revenue_category(m) > cat => Revenue_Score(m) > score

\* C11 witness: a row of revenue 0 has been scored 0 in the lowest category
C11_Witness ==
    Built /\ built.row.revenue_millions = 0 /\ built.row.revenue_category = 0
          /\ built.row.Revenue_Score = 0

\* the bucket of a day count under the claimed thresholds 7, 30, 60, 120
ClaimedActivityBucket(d) == Cardinality({t \in {7, 30, 60, 120} : d > t * DecScale})

\* day counts (hundredths) a score is compared over
ActivityValues ==
    {n * DecScale : n \in ActivityDays \ {-5}} \cup {7 * DecScale + DecScale \div 2}

\* C12 (as claimed): the Activity_Score thresholds are <= 7, <= 30, <= 60,
\* <= 120 and larger. Another day count gets the Activity_Score of the built
\* row exactly when it lies in the same of these five buckets, and the score
\* never increases as activity_days increases.
C12_ActivityScoreAsClaimed ==
    Built =>
        \A d \in ActivityValues :
            /\ ClaimedActivityBucket(d) = ClaimedActivityBucket(built.row.activity_days)
                  <=> _compute_activity_score(d) = built.row.Activity_Score
            /\ d >= built.row.activity_days
                  => _compute_activity_score(d) <= built.row.Activity_Score

\* C12 (amended): Activity_Score is 5 for activity_days <= 7, 4 for <= 14,
\* 3 for <= 30, 2 for <= 90 and 1 for anything larger (activity_days is
\* clipped to 180, so the score 0 of more than 180 days is never produced),
\* and the score never increases as activity_days increases.
C12_ActivityScoreThresholds ==
    Built =>
        LET d == built.row.activity_days
            score == built.row.Activity_Score
        IN  /\ score = 5 <=> d <= 7 * DecScale
            /\ score = 4 <=> (7 * DecScale < d /\ d <= 14 * DecScale)
            /\ score = 3 <=> (14 * DecScale < d /\ d <= 30 * DecScale)
            /\ score = 2 <=> (30 * DecScale < d /\ d <= 90 * DecScale)
            /\ score = 1 <=> 90 * DecScale < d
            /\ \A e \in ActivityValues :
                  e >= d => _compute_activity_score(e) <= score

\* C12 witness: a profile active 15 days ago has been scored 3
C12_Witness ==
    Built /\ built.row.activity_days = 15 * DecScale /\ built.row.Activity_Score = 3

\* the raw activity_days build_features reads from the profile
ActivityRawOf(ld) == IF Truthy(ld) THEN Field(ld, "activity_days") ELSE NoneV

\* text of a plain decimal number: an optional sign, digits, at most one point
IsDecimalText(s) ==
    LET u == Strip(s)
        body == IF u # "" /\ Ch(u, 1) \in {"+", "-"} THEN Drop(u, 1) ELSE u
    IN  /\ \A i \in 1 .. Len(body) : Ch(body, i) \in Digits \cup {"."}
        /\ \E i \in 1 .. Len(body) : Ch(body, i) \in Digits
        /\ Cardinality({i \in 1 .. Len(body) : Ch(body, i) = "."}) <= 1

\* the raw value is a day count: a number or the text of one
IsDayCount(raw) == raw.k = "num" \/ (raw.k = "str" /\ IsDecimalText(raw.v))

\* C13: activity range and missing flag. For any raw activity_days the feature
\* activity_days lies in [0, 180]; it is the fallback 30 with activity_missing
\* = 1 exactly when the raw value is missing or unparsable, and otherwise the
\* raw day count limited to [0, 180] with activity_missing = 0; is_active_week
\* is (activity_days <= 7) and is_active_month is (activity_days <= 30).
C13_ActivityRangeAndMissing ==
    Built =>
        LET raw == ActivityRawOf(linkedin_data)
            d == built.row.activity_days
        IN  /\ 0 <= d /\ d <= 180 * DecScale
            /\ built.row.activity_missing = 1 <=> ~IsDayCount(raw)
            /\ built.row.activity_missing = 1 => d = 30 * DecScale
            /\ raw.k = "num" =>
                  d = (IF raw.v < 0 THEN 0 ELSE IF raw.v > 180 THEN 180 ELSE raw.v)
                      * DecScale
            /\ built.row.is_active_week = BoolInt(d <= 7 * DecScale)
            /\ built.row.is_active_month = BoolInt(d <= 30 * DecScale)

\* C13 witness: a day count above the range has been limited to 180
C13_Witness ==
    Built /\ ActivityRawOf(linkedin_data) = Num(400)
          /\ built.row.activity_days = 180 * DecScale
          /\ built.row.activity_missing = 0

\* word w occurs in s as a whole token: no word character on either side
HasToken(s, w) ==
    \E i \in 1 .. (Len(s) - Len(w) + 1) :
        /\ SubSeq(s, i, i + Len(w) - 1) = w
        /\ i = 1 \/ ~IsWordChar(Ch(s, i - 1))
        /\ i + Len(w) - 1 = Len(s) \/ ~IsWordChar(Ch(s, i + Len(w)))

\* C14 (as claimed): VP detection. is_vp is 1 for every title containing
\* "vice president", or "vp" or "v.p." as a whole token, and 0 when those
\* letters occur only inside other words.
C14_VpDetection ==
    Built =>
        LET t == _safe_lower(built.title)
        IN  built.row.is_vp = 1 <=>
                \/ Contains(t, "vice president")
                \/ HasToken(t, "vp")
                \/ HasToken(t, "v.p.")

\* predict has returned
Returned_predict == pc = "done" /\ op = "predict"

\* predict has returned a result without an error entry
Predicted == Returned_predict /\ "error" \notin DOMAIN prediction[1]

\* the largest value of a non-empty dict of numbers
MaxValue(d) == CHOOSE v \in {d[key] : key \in DOMAIN d} : \A key \in DOMAIN d : d[key] <= v

\* C15 (as claimed): confidence validity. For every successful result of
\* predict the reported confidence is the probability of the predicted class,
\* lies in [0, 1], and equals the maximum of the reported
\* probability_distribution.
C15_ConfidenceValidity ==
    Predicted =>
        /\ prediction[1].confidence = probs.val[ArgMax(probs.val) + 1]
        /\ 0 <= prediction[1].confidence /\ prediction[1].confidence <= DecScale
        /\ prediction[1].confidence = MaxValue(prediction[1].probability_distribution)

\* C16 (as claimed): label mapping. The reported priority is the label that
\* reverse_mapping assigns to the arg-max class index, and "UNKNOWN" when
\* that index has no mapping; the reported priority is always the key of
\* probability_distribution that carries the maximum probability.
C16_LabelMapping ==
    Predicted =>
        LET result == prediction[1]
            key == IndexStr(ArgMax(probs.val))
        IN  /\ key \in DOMAIN reverse_mapping => result.priority = reverse_mapping[key]
            /\ key \notin DOMAIN reverse_mapping => result.priority = "UNKNOWN"
            /\ result.priority \in DOMAIN result.probability_distribution
            /\ result.probability_distribution[result.priority]
                  = MaxValue(result.probability_distribution)

\* C17 (as claimed): full distribution. probability_distribution has one
\* entry per class of the classifier, carrying that class's probability, and
\* one entry for every label of the manifest's reverse mapping, including
\* classes of probability 0; no class is omitted or merged.
C17_FullDistribution ==
    Predicted =>
        LET dist == prediction[1].probability_distribution
        IN  /\ Cardinality(DOMAIN dist) = model.classes
            /\ \A i \in 1 .. model.classes :
                  \E label \in DOMAIN dist : dist[label] = probs.val[i]
            /\ \A key \in DOMAIN reverse_mapping : reverse_mapping[key] \in DOMAIN dist

\* explain_prediction has returned a frame
Explained == pc = "done" /\ op = "explain" /\ ~explanation.raised

\* the magnitude of the value of an explanation row
Magnitude(row) == Abs(CellHundredths(row.value))

\* the manifest features of positive importance
Contributing == {i \in 1 .. Len(feature_names) : model.importances.v[i] > 0}

Constructed == op \in {"predict", "explain"} /\ pc # "start"

\* the predictor exists: predict can be called or has been called
Ready == op \in {"predict", "explain"} /\ pc \in {"ready", "done"}

\* a manifest with non-empty feature_names and reverse_mapping
ValidManifest(json) ==
    /\ json.k = "dict"
    /\ "feature_names" \in DOMAIN json /\ Len(json.feature_names) > 0
    /\ "reverse_mapping" \in DOMAIN json /\ DOMAIN json.reverse_mapping # {}

\* C19: fatal initialization. Construction of ModelPredictor fails exactly
\* when the model file is missing, the metadata file is missing, or the
\* metadata lacks (or has empty) feature_names or reverse_mapping; wherever
\* predict can be called the model is loaded and feature_names and
\* reverse_mapping are the manifest's non-empty entries, and no later step
\* changes them.
C19_FatalInitialization ==
    /\ [](Constructed =>
             (pc = "failed" <=>
                 (model_pkl = Missing \/ metadata_json = Missing
                  \/ ~ValidManifest(metadata_json))))
    /\ [](Ready =>
             /\ model = model_pkl /\ model # Missing
             /\ feature_names = Get(metadata_json, "feature_names", << >>)
             /\ reverse_mapping = Get(metadata_json, "reverse_mapping", EmptyMapping)
             /\ Len(feature_names) > 0 /\ DOMAIN reverse_mapping # {})
    /\ [][Ready => (Ready' /\ UNCHANGED << model, feature_names, reverse_mapping >>)]_vars

\* C19 witness: predict has returned a result from a loaded three-feature
\* manifest
C19_Witness == Predicted /\ Len(feature_names) = 3 /\ model = model_pkl

\* C20: prediction failure is a value. When the classifier raises during
\* predict_proba, predict returns a result with an error entry and no
\* priority, confidence or probability distribution; empty or null input
\* yields an error result too, without calling the classifier.
C20_FailureIsAValue ==
    Returned_predict =>
        /\ (probs.called /\ probs.raised) => DOMAIN prediction[1] = {"error"}
        /\ X.k \in {"none", "norows"} =>
              /\ DOMAIN prediction[1] = {"error"}
              /\ ~probs.called
        /\ "error" \in DOMAIN prediction[1] =>
              DOMAIN prediction[1]
                  \cap {"priority", "confidence", "probability_distribution"} = {}

\* C20 witness: predict has returned after the classifier raised
C20_Witness ==
    /\ Returned_predict /\ probs.called /\ probs.raised
    /\ "error" \in DOMAIN prediction[1]

---------------------------------------------------------------------------
\* C23: extract_recent_posts always returns a list, never null; when the
\* request raises, the status is neither 200 nor 201, or the body is no list,
\* the list is empty; otherwise, for a limit >= 0, it holds min(limit, number
\* of posts) posts of the response, chosen and ordered so that every returned
\* post precedes every post of the response behind it or left out: its
\* timestamp is larger, or equal with an earlier position in the response
\* (a missing or unparsable timestamp counting as 0).

\* the timestamp of a post as the claim counts it
ClaimedTimestamp(post) ==
    IF post.k # "dict" THEN 0
    ELSE IF "posted_at" \notin DOMAIN post THEN 0
    ELSE IF post.posted_at.k # "dict" THEN 0
    ELSE IF "timestamp" \notin DOMAIN post.posted_at THEN 0
    ELSE LET ts == post.posted_at.timestamp
         IN  IF ts.k = "num" THEN ts.v
             ELSE IF ts.k = "str" /\ ts.v # "" /\ AllDigits(ts.v) THEN DigitsVal(ts.v)
             ELSE 0

\* position i of the response comes before position j in the claimed order
RanksBefore(body, i, j) ==
    \/ ClaimedTimestamp(body[i]) > ClaimedTimestamp(body[j])
    \/ ClaimedTimestamp(body[i]) = ClaimedTimestamp(body[j]) /\ i < j

PostsFailure ==
    \/ resp.k = "raised"
    \/ resp.k = "response" /\ (resp.status_code \notin {200, 201} \/ resp.body.k # "list")

C23_RecentPosts ==
    (op = "posts" /\ pc = "done") =>
        /\ recent_posts.k = "list"
        /\ PostsFailure => recent_posts.v = << >>
        /\ ~PostsFailure =>
              LET body == resp.body.v
                  out == recent_posts.v
                  n == IF posts_limit < Len(body) THEN posts_limit ELSE Len(body)
              IN  /\ Len(out) = n
                  /\ \E at \in [1 .. n -> 1 .. Len(body)] :
                        /\ \A i \in 1 .. n : out[i] = body[at[i]]
                        /\ \A i, j \in 1 .. n : i < j => RanksBefore(body, at[i], at[j])
                        /\ \A i \in 1 .. n : \A j \in 1 .. Len(body) :
                              (\A h \in 1 .. n : at[h] # j) => RanksBefore(body, at[i], j)

\* a response of three posts with a tie and an unparsable timestamp was cut
\* to its two newest posts
C23_Witness ==
    /\ op = "posts" /\ pc = "done" /\ posts_limit = 2
    /\ resp = Response(200, List(<< PostOf("e", Str("abc")), PostOf("a", Num(300)),
                                    PostOf("b", Num(300)) >>))
    /\ recent_posts = List(<< PostOf("a", Num(300)), PostOf("b", Num(300)) >>)

---------------------------------------------------------------------------
\* C22: _wait_for_run terminates for every sequence of statuses; it returns
\* true only if SUCCEEDED was observed before the timeout elapsed, false as
\* soon as FAILED, ABORTED or TIMED_OUT is observed and false once the elapsed
\* time reaches the timeout; after a false result extract_profile returns no
\* profile data.  As stated, "before the timeout elapsed" is measured when the
\* status is observed.

Waited == op = "wait" /\ pc \in {"returned", "done"}

\* the latest moment the call can return: the last lookup starts before the
\* timeout, a lookup and a sleep follow it
LatestReturn == run_timeout + StatusRequestTimeout + SleepSeconds + MaxJitter

\* what holds of the call whichever way "before the timeout" is measured: the
\* latest return, a lookup only while the loop read an elapsed time below the
\* timeout, no further step of the loop after a final status, false only
\* after a final failure or the timeout, and no profile after false
PollingSafety ==
    op = "wait" =>
        /\ clock <= LatestReturn
        /\ pc = "poll" => elapsed < run_timeout
        /\ pc \in {"test", "poll", "sleep"} =>
              (~GivesUp(run_status) /\ run_status # "SUCCEEDED" /\ wait_ok = Null)
        /\ (Waited /\ wait_ok = Bool(FALSE)) =>
              (GivesUp(run_status) \/ elapsed >= run_timeout)
        /\ (pc = "done" /\ wait_ok = Bool(FALSE)) => profile_data = NoneV

SucceededBeforeTimeout ==
    (Waited /\ wait_ok = Bool(TRUE)) =>
        (run_status = "SUCCEEDED" /\ clock < run_timeout)

C22_BoundedPolling ==
    /\ <>(op = "wait" => pc = "done")
    /\ [](PollingSafety /\ SucceededBeforeTimeout)

\* C22, amended: the same, except that true is returned only if SUCCEEDED was
\* the answer to a lookup that began while the elapsed time read by the loop
\* was below the timeout; the answer itself may arrive after the timeout.
SucceededLookupBegunBeforeTimeout ==
    (Waited /\ wait_ok = Bool(TRUE)) =>
        (run_status = "SUCCEEDED" /\ elapsed < run_timeout)

C22_BoundedPollingByLoopClock ==
    /\ <>(op = "wait" => pc = "done")
    /\ [](PollingSafety /\ SucceededLookupBegunBeforeTimeout)

\* the provider never reported a final status: the loop gave up at the first
\* check at or after the timeout, and extract_profile returned None
C22_Witness ==
    /\ op = "wait" /\ pc = "done" /\ run_status = "UNKNOWN"
    /\ elapsed >= run_timeout /\ wait_ok = Bool(FALSE) /\ profile_data = NoneV

---------------------------------------------------------------------------
\* C21: after a click on Generate Lead Score the script run ends without an
\* uncaught exception whatever predict returned; a reported failure puts no
\* priority label on the page, and a successful result is shown with its
\* label, its confidence and its distribution.

Generated == op = "app" /\ pc = "generated"

\* the result dictionary predict returned
ResultReturned == prediction[1]

C21_ScoringNeverCrashes ==
    Generated =>
        /\ ~uncaught
        /\ "error" \in DOMAIN ResultReturned => screen.results = NoResults
        /\ "error" \notin DOMAIN ResultReturned =>
              /\ screen.results.priority = ResultReturned.priority
              /\ screen.results.confidence = ResultReturned.confidence
              /\ screen.results.probabilities = ResultReturned.probability_distribution

---------------------------------------------------------------------------
\* C24: in every state of the session, ready_for_scoring is true only if
\* raw_linkedin_data and final_features are both set, a prediction is stored
\* only if ready_for_scoring is true, and the stored profile, features and
\* prediction come from the URL in last_linkedin_url; entering a non-empty
\* URL other than last_linkedin_url, and every extraction that fails, leaves
\* raw_linkedin_data, raw_company_data, final_features and prediction null
\* and ready_for_scoring false.

Cleared(ss) ==
    /\ ss.raw_linkedin_data = NoneV /\ ss.raw_company_data = NoneV
    /\ ss.final_features = NoneV /\ ss.prediction = NoneV
    /\ ~ss.ready_for_scoring

ReadyHasInputs ==
    session_state.ready_for_scoring =>
        (session_state.raw_linkedin_data # NoneV /\ session_state.final_features # NoneV)

PredictionNeedsReady ==
    session_state.prediction # NoneV => session_state.ready_for_scoring

\* the profile is the one of the username of last_linkedin_url, the features
\* are a row built from that profile, the prediction was made from those
\* features
DerivedFromLastUrl ==
    /\ session_state.raw_linkedin_data # NoneV =>
          Str(session_state.raw_linkedin_data.public_identifier.v)
              = _extract_username(session_state.last_linkedin_url)
    /\ session_state.final_features # NoneV =>
          /\ session_state.raw_linkedin_data # NoneV
          /\ \E manual \in {EmptyDict} \cup ManualForms :
                session_state.final_features
                    = Frame(build_features(session_state.raw_linkedin_data, manual,
                                           feature_names).features_df)
    /\ session_state.prediction # NoneV =>
          /\ session_state.final_features # NoneV
          /\ session_state.prediction.v[2].features_before_model
                = _align_features(session_state.final_features.cols, feature_names)

\* an extraction that did not enable scoring
ExtractionFailed == pc = "extracted" /\ ~session_state.ready_for_scoring

FailedExtractionClears == ExtractionFailed => Cleared(session_state)

\* the step of entering a URL that is not empty and not last_linkedin_url
UrlChangeClears ==
    (/\ op = "app" /\ pc' = "entered"
     /\ session_state'.linkedin_url # ""
     /\ Strip(session_state'.linkedin_url) # session_state.last_linkedin_url)
        => Cleared(session_state')

C24_SessionInvariant ==
    /\ [](op = "app" => (/\ ReadyHasInputs /\ PredictionNeedsReady
                         /\ DerivedFromLastUrl /\ FailedExtractionClears))
    /\ [][UrlChangeClears]_vars

---------------------------------------------------------------------------
\* C25: whenever a click on Generate Lead Score runs predict, the feature
\* row handed to predict is the row built from the stored profile and the
\* manual company fields saved in user_input_data at that moment.

C25_FeaturesAreFresh ==
    Generated =>
        X = Frame(build_features(session_state.raw_linkedin_data,
                                 session_state.user_input_data,
                                 feature_names).features_df)

====
